---- MODULE Spec2Model ----
(***************************************************************************)
(* X Profile Notes: the username normaliser, the notes collection with its *)
(* writers, the annotation engine with its debounced re-scan, the shared   *)
(* debug logger and the event bridge to the page's main world.             *)
(*                                                                         *)
(* Strings are sequences of one-character strings, so that case folding,   *)
(* trimming, replace() and the profile-link pattern are computed character *)
(* by character as the JavaScript does.                                    *)
(***************************************************************************)
EXTENDS Integers, Sequences, FiniteSets, TLC

VARIABLES
    nIn, nOut1, nOut2, nPc          \* normalizeUsername applied once and twice

normVars == <<nIn, nOut1, nOut2, nPc>>

----------------------------------------------------------------------------
(* Strings                                                                 *)

UpperChars == <<"A","B","C","D","E","F","G","H","I","J","K","L","M",
                "N","O","P","Q","R","S","T","U","V","W","X","Y","Z">>
LowerChars == <<"a","b","c","d","e","f","g","h","i","j","k","l","m",
                "n","o","p","q","r","s","t","u","v","w","x","y","z">>
DigitChars == <<"0","1","2","3","4","5","6","7","8","9">>

Range(s) == { s[i] : i \in DOMAIN s }

\* String.prototype.toLowerCase on one character
toLowerChar(c) ==
    IF \E i \in DOMAIN UpperChars : UpperChars[i] = c
    THEN LowerChars[CHOOSE i \in DOMAIN UpperChars : UpperChars[i] = c]
    ELSE c

toLowerCase(s) == [i \in DOMAIN s |-> toLowerChar(s[i])]

\* String.prototype.replace(c, ''): a string pattern replaces the FIRST
\* occurrence only, wherever it is
replaceFirst(s, c) ==
    IF \E i \in DOMAIN s : s[i] = c
    THEN LET i == CHOOSE k \in DOMAIN s : s[k] = c /\ \A j \in 1..(k-1) : s[j] # c
         IN SubSeq(s, 1, i-1) \o SubSeq(s, i+1, Len(s))
    ELSE s

\* all strings over alphabet A of length at most n
RECURSIVE StringsUpTo(_, _)
StringsUpTo(A, n) ==
    IF n = 0 THEN { <<>> }
    ELSE LET shorter == StringsUpTo(A, n-1)
         IN shorter \cup { Append(s, c) : s \in shorter, c \in A }

----------------------------------------------------------------------------
(* content.js: normalizeUsername                                           *)

MaxNormLen == 3
NormAlphabet == {"A", "a", "b", "@"}

normalizeUsername(username) == replaceFirst(toLowerCase(username), "@")

NormInit ==
    /\ nIn \in StringsUpTo(NormAlphabet, MaxNormLen)
    /\ nOut1 = <<>>
    /\ nOut2 = <<>>
    /\ nPc = "input"

NormIdle ==
    /\ nIn = <<>>
    /\ nOut1 = <<>>
    /\ nOut2 = <<>>
    /\ nPc = "off"

\* a caller normalises a raw username
NormalizeOnce ==
    /\ nPc = "input"
    /\ nOut1' = normalizeUsername(nIn)
    /\ nPc' = "once"
    /\ UNCHANGED <<nIn, nOut2>>

\* and passes the normalised name through normalizeUsername again
\* (saveNote normalises, then getAverageScore normalises its argument again)
NormalizeAgain ==
    /\ nPc = "once"
    /\ nOut2' = normalizeUsername(nOut1)
    /\ nPc' = "twice"
    /\ UNCHANGED <<nIn, nOut1>>

NormNext == NormalizeOnce \/ NormalizeAgain

----------------------------------------------------------------------------
(* Records of the notes collection                                         *)
(*                                                                         *)
(* A record is [fmt, note, scores, score, createdAt, updatedAt]. fmt says  *)
(* which of the optional fields the stored object has: "new" has a scores  *)
(* array and no score field, "legacy" has a score field and no scores      *)
(* array, "bare" has neither. A nullable number is a sequence of length at *)
(* most one: <<>> is null, <<v>> is v. A timestamp field that is absent    *)
(* (or 0, which JavaScript's || treats alike) is 0.                        *)

VARIABLES
    now,            \* Date.now()
    notes,          \* persisted value of the key 'notes' in chrome.storage.local
    notesCache,     \* content.js: notesCache
    allNotes,       \* popup: allNotes
    cPc,            \* content script: "init" | "migrating" | "ready" | "off"
    pPc,            \* popup: "closed" | "migrating" | "open"
    writes,         \* per context, its chrome.storage.local.set calls in flight, oldest first
    inbox,          \* per context, the onChanged notifications not yet delivered
    last            \* the last call of saveNote / deleteScoreAtIndex: arguments and effect

noteVars == <<now, notes, notesCache, allNotes, cPc, pPc, writes, inbox, last>>

MaxTime == 2
MaxScores == 5

Contexts == {"content", "popup"}
WhiteSpace == {" ", "\t", "\n"}

\* String.prototype.trim
RECURSIVE trimStart(_)
trimStart(s) ==
    IF Len(s) > 0 /\ s[1] \in WhiteSpace THEN trimStart(Tail(s)) ELSE s
RECURSIVE trimEnd(_)
trimEnd(s) ==
    IF Len(s) > 0 /\ s[Len(s)] \in WhiteSpace THEN trimEnd(SubSeq(s, 1, Len(s)-1)) ELSE s
\* the text as it was typed
untrimmed(s) == s
trim(s) == trimEnd(trimStart(s))

\* slice(0, n): keeps the oldest n instead of the newest n
sliceFirst(s, n) == IF Len(s) > n THEN SubSeq(s, 1, n) ELSE s
\* Array.prototype.slice(-n)
sliceLast(s, n) == IF Len(s) > n THEN SubSeq(s, Len(s)-n+1, Len(s)) ELSE s
\* a splice that takes the element after the one asked for
spliceOutNext(s, i) == SubSeq(s, 1, i+1) \o SubSeq(s, i+3, Len(s))
\* Array.prototype.splice(i, 1) at the 0-based index i
spliceOut(s, i) == SubSeq(s, 1, i) \o SubSeq(s, i+2, Len(s))

\* noteData.updatedAt || Date.now() replaced by Date.now()
stampNow(x, t) == t

\* x || Date.now() for a timestamp
stampOr(x, t) == IF x # 0 THEN x ELSE t

NewRecord(note, scores, createdAt, updatedAt) ==
    [fmt |-> "new", note |-> note, scores |-> scores, score |-> <<>>,
     createdAt |-> createdAt, updatedAt |-> updatedAt]

\* the test (noteData.score !== undefined && !noteData.scores)
needsMigration(r) == r.fmt = "legacy"

\* content.js: migrateNoteFormat at time t
migrateNoteFormat(noteData, t) ==
    IF needsMigration(noteData)
    THEN [noteData EXCEPT
            !.fmt = "new",
            !.scores = IF noteData.score # <<>>
                       THEN << [value |-> noteData.score[1],
                                timestamp |-> stampOr(noteData.updatedAt, t)] >>
                       ELSE <<>>,
            !.score = <<>>]
    ELSE IF noteData.fmt = "bare"
    THEN [noteData EXCEPT !.fmt = "new", !.scores = <<>>]
    ELSE noteData

\* content.js loadNotes: the loop that migrates legacy records
loadMigrated(coll, t) ==
    [k \in DOMAIN coll |->
        IF needsMigration(coll[k]) THEN migrateNoteFormat(coll[k], t) ELSE coll[k]]

\* the range test without its upper limit
scoreAtLeastOne(score) == score # <<>> /\ score[1] >= 1
\* the range test of saveNote on its score argument
scoreInRange(score) == score # <<>> /\ score[1] >= 1 /\ score[1] <= 5

\* saveNote: the samples after the optional append and the cap
appendScore(scores, score, t) ==
    IF scoreInRange(score)
    THEN sliceLast(Append(scores, [value |-> score[1], timestamp |-> t]), MaxScores)
    ELSE scores

\* every record counts as having content
hasContentAlways(r) == TRUE
\* saveNote, deleteScoreAtIndex: the test that keeps a record
hasContent(r) == r.note # <<>> \/ Len(r.scores) > 0

\* a saveNote that stamps createdAt on every call
saveNoteRecordRestamped(cache, n, noteText, score, t) ==
    [note |-> IF noteText # <<>> THEN trim(noteText) ELSE <<>>,
     scores |-> appendScore(IF n \in DOMAIN cache THEN cache[n].scores ELSE <<>>, score, t),
     createdAt |-> t, updatedAt |-> t, fmt |-> "new", score |-> <<>>]

\* saveNote up to its await: the record of the user after the call at time t
saveNoteRecord(cache, n, noteText, score, t) ==
    LET r0 == IF n \notin DOMAIN cache
              THEN NewRecord(<<>>, <<>>, t, t)
              ELSE migrateNoteFormat(cache[n], t)
    IN  [r0 EXCEPT !.note = IF noteText # <<>> THEN trim(noteText) ELSE <<>>,
                   !.scores = appendScore(r0.scores, score, t),
                   !.updatedAt = t]

\* a collection with the record of n replaced, whatever it holds
putAlways(cache, n, r) ==
    [k \in DOMAIN cache \cup {n} |-> IF k = n THEN r ELSE cache[k]]

\* a collection with the record of n replaced, or removed when it has no content
putOrDrop(cache, n, r) ==
    IF hasContent(r)
    THEN [k \in DOMAIN cache \cup {n} |-> IF k = n THEN r ELSE cache[k]]
    ELSE [k \in DOMAIN cache \ {n} |-> cache[k]]

saveNoteCache(cache, username, noteText, score, t) ==
    putOrDrop(cache, normalizeUsername(username),
              saveNoteRecord(cache, normalizeUsername(username), noteText, score, t))

\* deleteScoreAtIndex: the guard !noteData?.scores?.[index]
canDeleteScore(cache, n, index) ==
    /\ n \in DOMAIN cache
    /\ cache[n].fmt = "new"
    /\ index >= 0
    /\ index < Len(cache[n].scores)

deleteScoreCache(cache, n, index, t) ==
    putOrDrop(cache, n, [cache[n] EXCEPT !.scores = spliceOut(@, index), !.updatedAt = t])

scoresOf(coll, n) ==
    IF n \in DOMAIN coll /\ coll[n].fmt = "new" THEN coll[n].scores ELSE <<>>

EmptyColl == [k \in {} |-> <<>>]
\* the call under way: its arguments, Date.now() at the call, whether the
\* user had a record in the cache, and the user's samples before and after
NoCall == [op |-> "none", key |-> <<>>, text |-> <<>>, score |-> <<>>, at |-> 0,
           had |-> FALSE, pre |-> <<>>, post |-> <<>>]

----------------------------------------------------------------------------
(* chrome.storage.local for the key 'notes'                                *)
(*                                                                         *)
(* A set call carries the value serialised when it was called. The store   *)
(* commits the calls of one context in the order they were made and queues *)
(* an onChanged notification for every context that listens, the writer    *)
(* included; a writer's own notification is dispatched ahead of the        *)
(* completion of its set call.                                             *)

\* chrome.storage.local.set({notes: val}) called by ctx from operation op
sendSet(w, ctx, val, op) ==
    [w EXCEPT ![ctx] = Append(@, [val |-> val, op |-> op, st |-> "sent"])]

\* the user's calls are made one at a time: a context starts its next call when
\* the set call of the previous one has completed and its continuation has run
canSend(ctx) == writes[ctx] = <<>>

\* the contexts whose storage.onChanged listener is registered
Listening == (IF cPc = "ready" THEN {"content"} ELSE {})
             \cup (IF pPc = "open" THEN {"popup"} ELSE {})

hasSent(ctx) == \E i \in DOMAIN writes[ctx] : writes[ctx][i].st = "sent"

firstSent(ctx) ==
    CHOOSE i \in DOMAIN writes[ctx] :
        /\ writes[ctx][i].st = "sent"
        /\ \A j \in 1..(i-1) : writes[ctx][j].st # "sent"

\* changes.notes.newValue || {} of a notification: newValue is undefined
\* when the key was removed
newValueOrEmpty(n) == IF n.removed THEN EmptyColl ELSE n.val

\* a store that merges the records of a set call into the stored collection
StorageSetMerges(ctx) ==
    /\ hasSent(ctx)
    /\ notes' = [k \in DOMAIN notes \cup DOMAIN writes[ctx][firstSent(ctx)].val |->
                    IF k \in DOMAIN writes[ctx][firstSent(ctx)].val
                    THEN writes[ctx][firstSent(ctx)].val[k]
                    ELSE notes[k]]
    /\ writes' = [writes EXCEPT ![ctx][firstSent(ctx)].st = "ok"]
    /\ inbox' = [c \in Contexts |->
                    IF c \in Listening
                    THEN Append(inbox[c], [val |-> notes', from |-> ctx, removed |-> FALSE])
                    ELSE inbox[c]]
    /\ UNCHANGED <<now, notesCache, allNotes, cPc, pPc, last>>

\* the store commits the oldest set call of ctx and notifies every listener
StorageSetOk(ctx) ==
    /\ hasSent(ctx)
    /\ notes' = writes[ctx][firstSent(ctx)].val
    /\ writes' = [writes EXCEPT ![ctx][firstSent(ctx)].st = "ok"]
    /\ inbox' = [c \in Contexts |->
                    IF c \in Listening
                    THEN Append(inbox[c], [val |-> writes[ctx][firstSent(ctx)].val, from |-> ctx,
                                          removed |-> FALSE])
                    ELSE inbox[c]]
    /\ UNCHANGED <<now, notesCache, allNotes, cPc, pPc, last>>

\* the store rejects the oldest set call of ctx (quota, permission)
StorageSetFail(ctx) ==
    /\ hasSent(ctx)
    /\ writes' = [writes EXCEPT ![ctx][firstSent(ctx)].st = "failed"]
    /\ UNCHANGED <<now, notes, notesCache, allNotes, cPc, pPc, inbox, last>>

\* the oldest set call of ctx has completed and, if it was committed, the
\* notification of it has been delivered to ctx
completed(ctx) ==
    /\ Len(writes[ctx]) > 0
    /\ writes[ctx][1].st # "sent"
    /\ writes[ctx][1].st = "ok" =>
           Cardinality({ i \in DOMAIN inbox[ctx] : inbox[ctx][i].from = ctx })
             < Cardinality({ i \in DOMAIN writes[ctx] : writes[ctx][i].st = "ok" })
         \/ ctx \notin Listening

Tick ==
    /\ now < MaxTime
    /\ now' = now + 1
    /\ UNCHANGED <<notes, notesCache, allNotes, cPc, pPc, writes, inbox, last>>

----------------------------------------------------------------------------
(* content.js: the notes operations                                        *)

RawUsernames == { <<"A","l">>, <<"@","a","l">> }
NoteTexts == { <<>>, <<" ">>, <<" ","g"," ">> }
ScoreArgs == { <<>>, <<0>>, <<1>>, <<5>>, <<6>> }

\* loadNotes, called once by init before anything else is set up
ContentLoadNotes ==
    /\ cPc = "init"
    /\ notesCache' = loadMigrated(notes, now)
    /\ IF \E k \in DOMAIN notes : needsMigration(notes[k])
       THEN /\ writes' = sendSet(writes, "content", notesCache', "loadNotes")
            /\ cPc' = "migrating"
       ELSE /\ writes' = writes
            /\ cPc' = "ready"
    /\ UNCHANGED <<now, notes, allNotes, pPc, inbox, last>>

\* saveNote(username, noteText, score) up to its await, whatever calls of
\* the content script are still awaiting their storage.set
saveNoteStarts(username, noteText, score) ==
    /\ cPc = "ready"
    /\ notesCache' = saveNoteCache(notesCache, username, noteText, score, now)
    /\ writes' = sendSet(writes, "content", notesCache', "saveNote")
    /\ last' = [op |-> "saveNote", key |-> normalizeUsername(username),
                text |-> noteText, score |-> score, at |-> now,
                had |-> normalizeUsername(username) \in DOMAIN notesCache,
                pre |-> scoresOf(notesCache, normalizeUsername(username)),
                post |-> scoresOf(notesCache', normalizeUsername(username))]
    /\ UNCHANGED <<now, notes, allNotes, cPc, pPc, inbox>>

\* saveNote(username, noteText, score) up to its await
SaveNote(username, noteText, score) ==
    /\ canSend("content")
    /\ saveNoteStarts(username, noteText, score)

\* deleteScoreAtIndex(username, index) up to its await; a call the guard
\* rejects returns false and touches nothing
DeleteScoreAtIndex(username, index) ==
    /\ cPc = "ready"
    /\ canSend("content")
    /\ IF canDeleteScore(notesCache, normalizeUsername(username), index)
       THEN /\ notesCache' = deleteScoreCache(notesCache, normalizeUsername(username), index, now)
            /\ writes' = sendSet(writes, "content", notesCache', "deleteScoreAtIndex")
            /\ last' = [op |-> "deleteScore", key |-> normalizeUsername(username),
                        text |-> <<>>, score |-> <<index>>, at |-> now,
                        had |-> normalizeUsername(username) \in DOMAIN notesCache,
                        pre |-> scoresOf(notesCache, normalizeUsername(username)),
                        post |-> scoresOf(notesCache', normalizeUsername(username))]
       ELSE /\ last' = [op |-> "deleteScoreRejected", key |-> normalizeUsername(username),
                        text |-> <<>>, score |-> <<index>>, at |-> now,
                        had |-> normalizeUsername(username) \in DOMAIN notesCache,
                        pre |-> scoresOf(notesCache, normalizeUsername(username)),
                        post |-> scoresOf(notesCache, normalizeUsername(username))]
            /\ UNCHANGED <<notesCache, writes>>
    /\ UNCHANGED <<now, notes, allNotes, cPc, pPc, inbox>>

\* the continuation of the oldest completed set call of the content script:
\* saveNote / deleteScoreAtIndex / deleteNote return, loadNotes lets init go on
ContentResume ==
    /\ completed("content")
    /\ writes' = [writes EXCEPT !["content"] = Tail(@)]
    /\ cPc' = IF writes["content"][1].op = "loadNotes" THEN "ready" ELSE cPc
    /\ last' = IF Len(writes["content"]) = 1 THEN NoCall ELSE last
    /\ UNCHANGED <<now, notes, notesCache, allNotes, pPc, inbox>>

\* init's storage.onChanged listener
ContentOnChanged ==
    /\ cPc = "ready"
    /\ Len(inbox["content"]) > 0
    /\ notesCache' = newValueOrEmpty(Head(inbox["content"]))
    /\ inbox' = [inbox EXCEPT !["content"] = Tail(@)]
    /\ UNCHANGED <<now, notes, allNotes, cPc, pPc, writes, last>>

NotesIdle ==
    /\ now = 1
    /\ notes = EmptyColl
    /\ notesCache = EmptyColl
    /\ allNotes = EmptyColl
    /\ cPc = "off"
    /\ pPc = "closed"
    /\ writes = [c \in Contexts |-> <<>>]
    /\ inbox = [c \in Contexts |-> <<>>]
    /\ last = NoCall

\* the content script starts on a page with an empty collection
UpsertInit ==
    /\ now = 1
    /\ notes = EmptyColl
    /\ notesCache = EmptyColl
    /\ allNotes = EmptyColl
    /\ cPc = "init"
    /\ pPc = "closed"
    /\ writes = [c \in Contexts |-> <<>>]
    /\ inbox = [c \in Contexts |-> <<>>]
    /\ last = NoCall

----------------------------------------------------------------------------
(* Six upserts in a row: saveNote(user, '', 1) ... saveNote(user, '', 6),  *)
(* each called when the previous one has returned                          *)

VARIABLES
    drvUser,        \* the username the calls are made with
    drvNext         \* the position in SixScores of the next call

drvVars == <<drvUser, drvNext>>

SixScores == <<1, 2, 3, 4, 5, 6>>
DriverUsernames == { <<"b","o","b">>, <<"B","o","b">>, <<"@","b","o","b">>, <<"@","B","O","B">> }

DrvIdle ==
    /\ drvUser = <<>>
    /\ drvNext = 0

SixInit ==
    /\ UpsertInit
    /\ drvUser \in DriverUsernames
    /\ drvNext = 1

SixCall ==
    /\ drvNext \in DOMAIN SixScores
    /\ SaveNote(drvUser, <<>>, <<SixScores[drvNext]>>)
    /\ drvNext' = drvNext + 1
    /\ UNCHANGED drvUser

SixDone == drvNext = Len(SixScores) + 1 /\ writes["content"] = <<>>

\* the values of a list of samples
values(scores) == [i \in DOMAIN scores |-> scores[i].value]

----------------------------------------------------------------------------
(* content.js deleteNote, and the popup's operations on the collection     *)

VARIABLES
    ops             \* how many user operations have been started

MaxOps == 2

\* deleteNote(username) of the content script (the editor's Delete All,
\* after the user confirmed), up to its await
deleteNoteStarts(username) ==
    /\ cPc = "ready"
    /\ notesCache' = [k \in DOMAIN notesCache \ {replaceFirst(toLowerCase(username), "@")}
                        |-> notesCache[k]]
    /\ writes' = sendSet(writes, "content", notesCache', "deleteNote")
    /\ last' = [op |-> "deleteNote", key |-> replaceFirst(toLowerCase(username), "@"),
                text |-> <<>>, score |-> <<>>, at |-> now,
                had |-> replaceFirst(toLowerCase(username), "@") \in DOMAIN notesCache,
                pre |-> <<>>, post |-> <<>>]
    /\ UNCHANGED <<now, notes, allNotes, cPc, pPc, inbox>>

\* deleteNote(username), called when the previous call has returned
ContentDeleteNote(username) ==
    /\ canSend("content")
    /\ deleteNoteStarts(username)

\* popup loadNotes: the inline migration of one record
popupMigrate(r, t) ==
    IF r.fmt = "legacy"
    THEN [r EXCEPT !.fmt = "new",
                   !.scores = IF r.score # <<>>
                              THEN << [value |-> r.score[1],
                                       timestamp |-> stampOr(r.updatedAt, t)] >>
                              ELSE <<>>,
                   !.score = <<>>]
    ELSE r

\* the popup is opened: init calls loadNotes
PopupLoadNotes ==
    /\ pPc = "closed"
    /\ allNotes' = [k \in DOMAIN notes |-> popupMigrate(notes[k], now)]
    /\ IF \E k \in DOMAIN notes : notes[k].fmt = "legacy"
       THEN /\ writes' = sendSet(writes, "popup", allNotes', "loadNotes")
            /\ pPc' = "migrating"
       ELSE /\ writes' = writes
            /\ pPc' = "open"
    /\ UNCHANGED <<now, notes, notesCache, cPc, inbox, last>>

\* editNote(username) with the text the prompt returned; when the text is blank
\* and the record has no samples it goes through deleteNote, whose confirm()
\* the user answers with `confirmed`
PopupEditNote(username, newNote, confirmed) ==
    /\ pPc = "open"
    /\ canSend("popup")
    /\ username \in DOMAIN allNotes
    /\ IF trim(newNote) = <<>>
          /\ ~(allNotes[username].fmt = "new" /\ Len(allNotes[username].scores) > 0)
       THEN /\ confirmed
            /\ allNotes' = [k \in DOMAIN allNotes \ {username} |-> allNotes[k]]
       ELSE allNotes' = [allNotes EXCEPT ![username].note = trim(newNote),
                                         ![username].updatedAt = now]
    /\ writes' = sendSet(writes, "popup", allNotes', "editNote")
    /\ UNCHANGED <<now, notes, notesCache, cPc, pPc, inbox, last>>

\* deleteNote(username) of the popup, confirmed by the user
PopupDeleteNote(username) ==
    /\ pPc = "open"
    /\ canSend("popup")
    /\ username \in DOMAIN allNotes
    /\ allNotes' = [k \in DOMAIN allNotes \ {username} |-> allNotes[k]]
    /\ writes' = sendSet(writes, "popup", allNotes', "deleteNote")
    /\ UNCHANGED <<now, notes, notesCache, cPc, pPc, inbox, last>>

\* importNotes: an entry of the file is [hasNote, fmt, note, scores, score,
\* createdAt, updatedAt]; hasNote says that data.note is a string
importSkips(data) ==
    /\ ~data.hasNote
    /\ ~(data.fmt = "new" /\ Len(data.scores) > 0)
    /\ ~(data.fmt = "legacy" /\ data.score # <<>>)

importRecord(data, t) ==
    NewRecord(IF data.hasNote THEN data.note ELSE <<>>,
              IF data.fmt = "new" THEN data.scores
              ELSE IF data.fmt = "legacy" /\ data.score # <<>>
              THEN << [value |-> data.score[1], timestamp |-> stampOr(data.updatedAt, t)] >>
              ELSE <<>>,
              stampOr(data.createdAt, t),
              stampOr(data.updatedAt, t))

importInto(coll, file, t) ==
    [k \in DOMAIN coll \cup { u \in DOMAIN file : ~importSkips(file[u]) } |->
        IF k \in DOMAIN file /\ ~importSkips(file[k])
        THEN importRecord(file[k], t)
        ELSE coll[k]]

\* importNotes(file): the reader's onload handler up to its await
PopupImportNotes(file) ==
    /\ pPc = "open"
    /\ canSend("popup")
    /\ allNotes' = importInto(allNotes, file, now)
    /\ writes' = sendSet(writes, "popup", allNotes', "importNotes")
    /\ UNCHANGED <<now, notes, notesCache, cPc, pPc, inbox, last>>

\* the continuation of the oldest completed set call of the popup; a failed
\* write of loadNotes empties allNotes in its catch
PopupResume ==
    /\ completed("popup")
    /\ writes' = [writes EXCEPT !["popup"] = Tail(@)]
    /\ pPc' = IF writes["popup"][1].op = "loadNotes" THEN "open" ELSE pPc
    /\ allNotes' = IF writes["popup"][1].op = "loadNotes" /\ writes["popup"][1].st = "failed"
                   THEN EmptyColl ELSE allNotes
    /\ UNCHANGED <<now, notes, notesCache, cPc, inbox, last>>

\* setupEventListeners: the popup's storage.onChanged listener
PopupOnChanged ==
    /\ pPc = "open"
    /\ Len(inbox["popup"]) > 0
    /\ allNotes' = newValueOrEmpty(Head(inbox["popup"]))
    /\ inbox' = [inbox EXCEPT !["popup"] = Tail(@)]
    /\ UNCHANGED <<now, notes, notesCache, cPc, pPc, writes, last>>

\* what the store holds when the extension starts: nothing, or records an
\* earlier version wrote with a single nullable score
LegacyRecord(note, score) ==
    [fmt |-> "legacy", note |-> note, scores |-> <<>>, score |-> score,
     createdAt |-> 1, updatedAt |-> 1]

InitialStores ==
    { EmptyColl,
      [k \in { <<"a","l">> } |-> LegacyRecord(<<"g">>, <<>>)],
      [k \in { <<"a","l">> } |-> LegacyRecord(<<>>, <<4>>)] }

ImportEntry(hasNote, fmt, note, scores, score) ==
    [hasNote |-> hasNote, fmt |-> fmt, note |-> note, scores |-> scores, score |-> score,
     createdAt |-> 0, updatedAt |-> 0]

ImportEntries ==
    { ImportEntry(TRUE, "bare", <<>>, <<>>, <<>>),                  \* {"note": ""}
      ImportEntry(TRUE, "new", <<"g">>, << [value |-> 5, timestamp |-> 1] >>, <<>>),
      ImportEntry(FALSE, "legacy", <<>>, <<>>, <<4>>),              \* {"score": 4}
      ImportEntry(FALSE, "legacy", <<>>, <<>>, <<>>),               \* {"score": null}
      ImportEntry(FALSE, "bare", <<>>, <<>>, <<>>) }                \* {}

ImportFiles == [ { <<"a","l">> } -> ImportEntries ]

\* files whose entries carry a rating that the editor cannot produce
ForeignEntries ==
    { ImportEntry(TRUE, "new", <<"g">>, << [value |-> 9, timestamp |-> 1] >>, <<>>),
      ImportEntry(FALSE, "legacy", <<>>, <<>>, <<0>>),              \* {"score": 0}
      ImportEntry(FALSE, "legacy", <<>>, <<>>, <<4>>) }             \* {"score": 4}

ForeignFiles == [ { <<"b","o">> } -> ForeignEntries ]

NotesInit ==
    /\ now = 1
    /\ notes \in InitialStores
    /\ notesCache = EmptyColl
    /\ allNotes = EmptyColl
    /\ cPc = "init"
    /\ pPc = "closed"
    /\ writes = [c \in Contexts |-> <<>>]
    /\ inbox = [c \in Contexts |-> <<>>]
    /\ last = NoCall
    /\ ops = 0

Spend ==
    /\ ops < MaxOps
    /\ ops' = ops + 1

\* stores of the current version: a record of another user, or a record of
\* the user with one sample and with or without a note
OneSample(note) == NewRecord(note, << [value |-> 4, timestamp |-> 1] >>, 1, 1)

FrameStores ==
    { [k \in { <<"b","o">> } |-> OneSample(<<"g">>)],
      [k \in { <<"a","l">> } |-> OneSample(<<>>)],
      [k \in { <<"a","l">>, <<"b","o">> } |->
          IF k = <<"a","l">> THEN OneSample(<<"g">>) ELSE OneSample(<<>>)] }

FrameInit ==
    /\ now = 1
    /\ notes \in FrameStores
    /\ notesCache = EmptyColl
    /\ allNotes = EmptyColl
    /\ cPc = "init"
    /\ pPc = "closed"
    /\ writes = [c \in Contexts |-> <<>>]
    /\ inbox = [c \in Contexts |-> <<>>]
    /\ last = NoCall
    /\ ops = 0

----------------------------------------------------------------------------
(* migrateNoteFormat, and the popup's inline migration, on single records  *)

VARIABLES
    mIn,            \* the record as stored
    mBy,            \* whose migration is applied: "content" | "popup"
    mAt,            \* Date.now() at the application under way
    mOut1, mOut2,   \* the record after one and after two applications
    mPc             \* "in" | "once" | "twice" | "off"

migVars == <<mIn, mBy, mAt, mOut1, mOut2, mPc>>

\* a stored record with the given optional fields
StoredRecord(fmt, note, scores, score, updatedAt) ==
    [fmt |-> fmt, note |-> note, scores |-> scores, score |-> score,
     createdAt |-> updatedAt, updatedAt |-> updatedAt]

MigrationTimes == 1..3
MigrationNotes == { <<>>, <<"g">> }
MigrationScores == { <<>>, <<0>>, <<4>>, <<5>> }
MigrationSamples ==
    { <<>>, << [value |-> 4, timestamp |-> 1] >>,
      << [value |-> 4, timestamp |-> 1], [value |-> 5, timestamp |-> 2] >> }

\* the records the store may hold: with a score field and no scores array
\* (legacy), with a scores array (new), with both (fmt "both"), with neither
MigrationInputs ==
    { StoredRecord("legacy", n, <<>>, s, u) :
          n \in MigrationNotes, s \in MigrationScores, u \in 0..2 }
    \cup { StoredRecord("new", n, ss, <<>>, u) :
          n \in MigrationNotes, ss \in MigrationSamples, u \in 1..2 }
    \cup { StoredRecord("both", n, ss, s, u) :
          n \in MigrationNotes, ss \in MigrationSamples, s \in MigrationScores, u \in 1..2 }
    \cup { StoredRecord("bare", n, <<>>, <<>>, u) : n \in MigrationNotes, u \in 1..2 }

\* the migration a context applies to a record at time t
migrate(by, r, t) ==
    IF by = "content" THEN migrateNoteFormat(r, t) ELSE popupMigrate(r, t)

MigIdle ==
    /\ mIn = <<>>
    /\ mBy = "content"
    /\ mAt = 1
    /\ mOut1 = <<>>
    /\ mOut2 = <<>>
    /\ mPc = "off"

MigInit ==
    /\ mIn \in MigrationInputs
    /\ mBy \in Contexts
    /\ mAt \in MigrationTimes
    /\ mOut1 = <<>>
    /\ mOut2 = <<>>
    /\ mPc = "in"

MigrateOnce ==
    /\ mPc = "in"
    /\ mOut1' = migrate(mBy, mIn, mAt)
    /\ mPc' = "once"
    /\ UNCHANGED <<mIn, mBy, mAt, mOut2>>

\* time passes between the two applications
MigrateLater ==
    /\ mPc = "once"
    /\ mAt + 1 \in MigrationTimes
    /\ mAt' = mAt + 1
    /\ UNCHANGED <<mIn, mBy, mOut1, mOut2, mPc>>

MigrateAgain ==
    /\ mPc = "once"
    /\ mOut2' = migrate(mBy, mOut1, mAt)
    /\ mPc' = "twice"
    /\ UNCHANGED <<mIn, mBy, mAt, mOut1>>

----------------------------------------------------------------------------
(* content.js: the average of a user's samples and the controls that show  *)
(* it. A number with one decimal place is held as its count of tenths.     *)

VARIABLES
    buttons     \* the controls on the page, in document order

viewVars == <<buttons>>

MaxButtons == 2
MaxUpserts == 3

\* the scores array of a record, empty when the record has none
sampleList(r) == IF r.fmt \in {"legacy", "bare"} THEN <<>> ELSE r.scores

RECURSIVE sumValues(_)
\* scores.reduce((acc, s) => acc + s.value, 0)
sumValues(scores) ==
    IF scores = <<>> THEN 0 ELSE scores[1].value + sumValues(Tail(scores))

\* the tenths of sum / len with the digits after the first decimal cut off
truncTenths(sum, len) == (10 * sum) \div len
\* Math.round((sum / len) * 10) / 10, in tenths: Math.round(x) is floor(x + 1/2)
roundTenths(sum, len) == (20 * sum + len) \div (2 * len)

\* getAverageScore(username): <<>> for null
getAverageScore(cache, username) ==
    LET n == normalizeUsername(username)
    IN  IF n \notin DOMAIN cache \/ sampleList(cache[n]) = <<>>
        THEN <<>>
        ELSE << roundTenths(sumValues(sampleList(cache[n])), Len(sampleList(cache[n]))) >>

\* hasNote(username)
hasNote(cache, username) ==
    LET n == normalizeUsername(username)
    IN  /\ n \in DOMAIN cache
        /\ cache[n].note # <<>> \/ sampleList(cache[n]) # <<>>

Max(a, b) == IF a >= b THEN a ELSE b
Min(a, b) == IF a <= b THEN a ELSE b

\* the tier with Math.floor in the place of Math.round
colorTierFloor(avg) == Max(1, Min(5, avg \div 10))
\* Math.max(1, Math.min(5, Math.round(avgScore))), the average given in tenths
colorTier(avg) == Max(1, Min(5, (avg + 5) \div 10))

\* the decimal digits of a natural number
RECURSIVE digitsOf(_)
digitsOf(n) ==
    IF n < 10
    THEN << DigitChars[n + 1] >>
    ELSE digitsOf(n \div 10) \o << DigitChars[(n % 10) + 1] >>

\* avgScore % 1 === 0 ? avgScore.toString() : avgScore.toFixed(1), the
\* average given in tenths
displayScore(avg) ==
    IF avg % 10 = 0
    THEN digitsOf(avg \div 10)
    ELSE digitsOf(avg \div 10) \o <<".">> \o digitsOf(avg % 10)

\* getScores(username).length
scoreCount(cache, username) ==
    LET n == normalizeUsername(username)
    IN  IF n \in DOMAIN cache THEN Len(sampleList(cache[n])) ELSE 0

\* the texts of the title and aria-label attributes, each held as the
\* template it is made from and the values put in:
\* `Add note for @${username}`
AddLabel(username) ==
    [kind |-> "add", username |-> username, display |-> <<>>, count |-> 0]
\* `View/edit note for @${username}`
ViewLabel(username) ==
    [kind |-> "view", username |-> username, display |-> <<>>, count |-> 0]
\* `Avg: ${displayScore}/5 (${scoreCount} score${scoreCount > 1 ? 's' : ''}) - Click to edit`
AvgLabel(display, count) ==
    [kind |-> "avg", username |-> <<>>, display |-> display, count |-> count]

\* createNoteButton(username); display is the text the control shows, <<>>
\* for the icon
createNoteButton(cache, username) ==
    LET avgScore == getAverageScore(cache, username)
    IN  [username |-> username,
         score |-> avgScore,
         tier |-> IF avgScore # <<>> THEN << colorTier(avgScore[1]) >> ELSE <<>>,
         indicator |-> hasNote(cache, username),
         display |-> IF avgScore # <<>> THEN displayScore(avgScore[1]) ELSE <<>>,
         title |-> IF avgScore # <<>>
                   THEN AvgLabel(displayScore(avgScore[1]), scoreCount(cache, username))
                   ELSE IF hasNote(cache, username) THEN ViewLabel(username)
                   ELSE AddLabel(username),
         ariaLabel |-> AddLabel(username)]

\* updateAllIndicators: one control brought up to date
updateIndicator(cache, button) ==
    LET avgScore == getAverageScore(cache, button.username)
    IN  IF avgScore # <<>>
        THEN [button EXCEPT !.score = avgScore, !.tier = << colorTier(avgScore[1]) >>,
                            !.display = displayScore(avgScore[1]),
                            !.title = AvgLabel(displayScore(avgScore[1]),
                                               scoreCount(cache, button.username))]
        ELSE [button EXCEPT !.score = <<>>, !.tier = <<>>,
                            !.indicator = hasNote(cache, button.username),
                            !.display = <<>>,
                            !.title = IF hasNote(cache, button.username)
                                      THEN ViewLabel(button.username)
                                      ELSE AddLabel(button.username)]

updateAllIndicators(cache, bs) == [i \in DOMAIN bs |-> updateIndicator(cache, bs[i])]

ViewUsernames == { <<"A","l","i","c","e">>, <<"b","o">> }
GreatContact == <<" ","g","r","e","a","t"," ","c","o","n","t","a","c","t"," ">>
ViewTexts == { <<>>, GreatContact }
ViewScores == { <<>>, <<3>>, <<4>>, <<5>> }

\* the user of the i-th profile link of the page
pageUser(i) == IF i % 2 = 1 THEN <<"A","l","i","c","e">> ELSE <<"b","o">>

\* processPage puts a control next to the next profile link of the page
InjectControl ==
    /\ cPc = "ready"
    /\ Len(buttons) < MaxButtons
    /\ buttons' = Append(buttons, createNoteButton(notesCache, pageUser(Len(buttons) + 1)))

\* the continuation of saveNote, deleteScoreAtIndex and deleteNote after a
\* set call that succeeded runs updateAllIndicators
ContentResumeView ==
    /\ ContentResume
    /\ buttons' = IF /\ writes["content"][1].st = "ok"
                     /\ writes["content"][1].op # "loadNotes"
                  THEN updateAllIndicators(notesCache, buttons)
                  ELSE buttons

\* the storage.onChanged listener of init replaces the cache and runs
\* updateAllIndicators
ContentOnChangedView ==
    /\ ContentOnChanged
    /\ buttons' = updateAllIndicators(notesCache', buttons)

\* one more call of saveNote by the user
Upsert(username, noteText, score) ==
    /\ ops < MaxUpserts
    /\ ops' = ops + 1
    /\ SaveNote(username, noteText, score)

ViewIdle == buttons = <<>>

ViewInit ==
    /\ UpsertInit
    /\ ops = 0
    /\ buttons = <<>>

\* the stores of a page session that the popup takes part in: one record,
\* written by this version or by an earlier one
SyncStores ==
    { [k \in { <<"b","o">> } |-> OneSample(<<"g">>)],
      [k \in { <<"b","o">> } |-> LegacyRecord(<<"g">>, <<4>>)] }

SyncInit ==
    /\ now = 1
    /\ notes \in SyncStores
    /\ notesCache = EmptyColl
    /\ allNotes = EmptyColl
    /\ cPc = "init"
    /\ pPc = "closed"
    /\ writes = [c \in Contexts |-> <<>>]
    /\ inbox = [c \in Contexts |-> <<>>]
    /\ last = NoCall
    /\ ops = 0
    /\ buttons = <<>>

----------------------------------------------------------------------------
(* content.js: what saveNote and deleteScoreAtIndex return when the store  *)
(* accepts or rejects their write                                          *)

VARIABLES
    ret         \* what the last call that returned gave: "none" | "true" | "false"

retVars == <<ret>>

\* a catch block that returns true as the try block does
returnedTrue(st) == "true"

\* try { await set(...); updateAllIndicators(); return true } catch { return false }
returned(st) == IF st = "ok" THEN "true" ELSE "false"

\* the continuation of saveNote / deleteScoreAtIndex after the set call, up
\* to the return
ContentReturns ==
    /\ ContentResumeView
    /\ ret' = IF writes["content"][1].op = "loadNotes"
              THEN ret
              ELSE returned(writes["content"][1].st)

\* one more call of deleteScoreAtIndex by the user
DeleteSample(username, index) ==
    /\ ops < MaxUpserts
    /\ ops' = ops + 1
    /\ DeleteScoreAtIndex(username, index)

\* updateScoreHistoryDisplay: the stored index of the entry shown at place
\* idx of the history list, which shows the most recent sample first
realIndex(len, idx) == len - 1 - idx

\* deleteScoreAtIndex(username, index) called once more, up to its await or,
\* when the guard rejects the call, up to its `return false`
DeleteCall(username, index) ==
    /\ DeleteSample(username, index)
    /\ ret' = IF canDeleteScore(notesCache, normalizeUsername(username), index)
              THEN ret
              ELSE returned("rejected")

\* the click handler of the delete button of the entry shown at place idx
\* of the user's history list
ClickScoreDelete(username, idx) ==
    /\ idx < Len(scoresOf(notesCache, normalizeUsername(username)))
    /\ DeleteCall(username,
                  realIndex(Len(scoresOf(notesCache, normalizeUsername(username))), idx))

RetIdle == ret = "none"

----------------------------------------------------------------------------
(* content.js: discovery, decoration and the debounced re-scan             *)
(*                                                                         *)
(* The document is the sequence of its anchors in document order. An       *)
(* anchor is [href, text, container, processed, wrappers, controls]:       *)
(* container is the element of the host page it sits in, processed the     *)
(* data-xpn-processed attribute, wrappers and controls the number of       *)
(* xpn-username-wrapper spans around it and of xpn-note-btn buttons beside *)
(* it. Time is in milliseconds; a timer holds the time left before it is   *)
(* due, and may run late.                                                  *)

VARIABLES
    doc,            \* the anchors of the document
    dPc,            \* content script: "init" before the first processPage, then "observing"
    timers,         \* the live setTimeout(processPage, ...) timers: [id, left]
    processTimeout, \* content.js: processTimeout, a timer id (0 is null)
    dg              \* what the scheduler has done so far (for the claims)

domVars == <<doc, dPc, timers, processTimeout, dg>>

debounceMs == 100
Quantum == 50
MaxAnchors == 2
MaxBurst == 3

WordChars == Range(UpperChars) \cup Range(LowerChars) \cup Range(DigitChars) \cup {"_"}

\* /^\/[a-zA-Z0-9_]{1,15}$/.test(href)
isProfileHref(href) ==
    /\ Len(href) >= 2
    /\ Len(href) <= 16
    /\ href[1] = "/"
    /\ \A i \in 2..Len(href) : href[i] \in WordChars

\* text.startsWith('@') || text.toLowerCase() === href.slice(1).toLowerCase()
looksLikeUsername(text, href) ==
    \/ Len(trim(text)) > 0 /\ trim(text)[1] = "@"
    \/ toLowerCase(trim(text)) = toLowerCase(Tail(href))

skipUsernames ==
    { <<"h","o","m","e">>, <<"e","x","p","l","o","r","e">>,
      <<"n","o","t","i","f","i","c","a","t","i","o","n","s">>,
      <<"m","e","s","s","a","g","e","s">>, <<"s","e","t","t","i","n","g","s">>,
      <<"s","e","a","r","c","h">>, <<"c","o","m","p","o","s","e">>, <<"i">>,
      <<"i","n","t","e","n","t">> }

\* link.closest('.xpn-username-wrapper'): a wrapper of the page or one of ours
inWrapper(a) == a.container = "wrapper" \/ a.wrappers > 0

\* findUsernameElements: whether the anchor is put on the list
found(a) ==
    /\ Len(a.href) >= 1 /\ a.href[1] = "/"        \* a[href^="/"]
    /\ ~a.processed
    /\ a.container # "modal"
    /\ ~inWrapper(a)
    /\ isProfileHref(a.href)
    /\ looksLikeUsername(a.text, a.href)
    /\ a.container # "tweetText"

\* processPage: whether an anchor of the list gets a button
injects(a) ==
    /\ found(a)
    /\ ~a.processed
    /\ toLowerCase(Tail(a.href)) \notin skipUsernames

\* injectButton without its setAttribute(processedAttr)
injectButtonNoMark(a) ==
    [a EXCEPT !.wrappers = @ + 1, !.controls = @ + 1]

\* injectButton
injectButton(a) ==
    [a EXCEPT !.processed = TRUE, !.wrappers = @ + 1, !.controls = @ + 1]

\* processPage: the document after the scan, and injectedCount
processPageDoc(d) == [i \in DOMAIN d |-> IF injects(d[i]) THEN injectButton(d[i]) ELSE d[i]]
injectedCountAll(d) == Cardinality({ i \in DOMAIN d : TRUE })
injectedCount(d) == Cardinality({ i \in DOMAIN d : injects(d[i]) })

\* setTimeout: an id no live timer has and the handle does not hold
freshId(ts, handle) ==
    CHOOSE n \in 1..(Cardinality(ts) + 2) :
        /\ n # handle
        /\ \A t \in ts : t.id # n
        /\ \A k \in 1..(n-1) : k = handle \/ \E t \in ts : t.id = k

\* debouncedProcess without its clearTimeout
armNoClear(ts, handle) ==
    ts \cup { [id |-> freshId(ts, handle), left |-> debounceMs] }

\* debouncedProcess: the live timers afterwards
arm(ts, handle) ==
    { x \in ts : x.id # handle }
        \cup { [id |-> freshId(ts, handle), left |-> debounceMs] }

\* ... and the handle afterwards
armHandle(ts, handle) == freshId(ts, handle)

\* the scheduler's history after an insertion the observer sees: an
\* insertion less than debounceMs after the previous one joins its burst
insertionSeen(g) ==
    IF g.burstN > 0 /\ g.sinceInsert < debounceMs
    THEN [g EXCEPT !.sinceInsert = 0, !.burstN = @ + 1]
    ELSE [g EXCEPT !.sinceInsert = 0, !.burstN = 1, !.burstScans = 0]

\* sinceInsert: the time since the observer last saw an insertion, counted
\* up to debounceMs; burstN: the insertions of the burst that insertion
\* belongs to (0: none seen yet); burstScans: the scans timers have run
\* since debouncedProcess was last called; gap:
\* sinceInsert when the last timer ran its scan; injected: the last scan's injectedCount; changed:
\* an anchor was inserted since the last scan; rescan: the last scan ran
\* over the anchors the scan before it left
NoHistory ==
    [sinceInsert |-> debounceMs, burstN |-> 0, burstScans |-> 0, gap |-> debounceMs,
     injected |-> 0, changed |-> TRUE, rescan |-> FALSE]

\* whether the burst has room for one more insertion
burstRoom(g) == insertionSeen(g).burstN <= MaxBurst

Anchor(href, text, container) ==
    [href |-> href, text |-> text, container |-> container,
     processed |-> FALSE, wrappers |-> 0, controls |-> 0]

Name15 == <<"a","b","c","d","e","f","g","h","i","j","k","l","m","n","o">>

AnchorKinds ==
    { Anchor(<<"/","a","l">>, <<"@","a","l">>, "header"),
      Anchor(<<"/","A","_","1">>, <<" ","a","_","1","\n">>, "header"),
      Anchor(<<"/">> \o Name15, <<"@">> \o Name15, "header"),
      Anchor(<<"/","a","l">>, <<"@","z","z">>, "header"),
      Anchor(<<"/","a","l">>, <<"z","z">>, "header"),
      Anchor(<<"/","H","o","m","e">>, <<"@","H","o","m","e">>, "header"),
      Anchor(<<"/","a","l","/","s">>, <<"@","a","l">>, "header"),
      Anchor(<<"/","a","-","l">>, <<"@","a","-","l">>, "header"),
      Anchor(<<"/">> \o Name15 \o <<"p">>, <<"@">> \o Name15 \o <<"p">>, "header"),
      Anchor(<<"/","a","l">>, <<"@","a","l">>, "tweetText"),
      Anchor(<<"/","a","l">>, <<"@","a","l">>, "modal"),
      Anchor(<<"/","a","l">>, <<"a","l">>, "wrapper") }

DomIdle ==
    /\ doc = <<>>
    /\ dPc = "off"
    /\ timers = {}
    /\ processTimeout = 0
    /\ dg = NoHistory

\* the page as the content script finds it
DomInit ==
    /\ doc \in { <<>> } \cup { <<k>> : k \in AnchorKinds }
    /\ dPc = "init"
    /\ timers = {}
    /\ processTimeout = 0
    /\ dg = NoHistory

\* init: the first processPage, then setupObserver; the observer is set up
\* after the scan, so it does not see the nodes this scan inserts
InitProcessPage ==
    /\ dPc = "init"
    /\ doc' = processPageDoc(doc)
    /\ dPc' = "observing"
    /\ dg' = [dg EXCEPT !.injected = injectedCount(doc), !.changed = FALSE]
    /\ UNCHANGED <<timers, processTimeout>>

\* the host page inserts an anchor; the MutationObserver callback calls
\* debouncedProcess once the observer is set up
HostInsertAnchor(k) ==
    /\ Len(doc) < MaxAnchors
    /\ dPc = "observing" => burstRoom(dg)
    /\ doc' = Append(doc, k)
    /\ IF dPc = "observing"
       THEN /\ timers' = arm(timers, processTimeout)
            /\ processTimeout' = armHandle(timers, processTimeout)
            /\ dg' = [insertionSeen(dg) EXCEPT !.changed = TRUE]
       ELSE /\ dg' = [dg EXCEPT !.changed = TRUE]
            /\ UNCHANGED <<timers, processTimeout>>
    /\ UNCHANGED dPc

\* the host page inserts a node that holds no anchor
HostInsertOther ==
    /\ dPc = "observing"
    /\ burstRoom(dg)
    /\ timers' = arm(timers, processTimeout)
    /\ processTimeout' = armHandle(timers, processTimeout)
    /\ dg' = insertionSeen(dg)
    /\ UNCHANGED <<doc, dPc>>

\* a processPage timer fires: the scan, and, when it injected buttons, the
\* observer callback for the wrappers it inserted
ProcessPageTimer(tm) ==
    /\ tm \in timers
    /\ tm.left = 0
    /\ doc' = processPageDoc(doc)
    /\ LET scanned == [dg EXCEPT !.burstScans = @ + 1,
                                 !.gap = dg.sinceInsert,
                                 !.injected = injectedCount(doc),
                                 !.changed = FALSE,
                                 !.rescan = ~dg.changed]
       IN  IF injectedCount(doc) > 0
           THEN /\ timers' = arm(timers \ {tm}, processTimeout)
                /\ processTimeout' = armHandle(timers \ {tm}, processTimeout)
                /\ dg' = insertionSeen(scanned)
           ELSE /\ timers' = timers \ {tm}
                /\ dg' = scanned
                /\ UNCHANGED processTimeout
    /\ UNCHANGED dPc

\* the host page changes the URL (client-side routing) with a mutation that
\* adds no node: the navigation observer calls debouncedProcess
HostNavigate ==
    /\ dPc = "observing"
    /\ timers' = arm(timers, processTimeout)
    /\ processTimeout' = armHandle(timers, processTimeout)
    /\ dg' = [dg EXCEPT !.burstScans = 0]
    /\ UNCHANGED <<doc, dPc>>

\* the time left on a timer, and the time since an event counted up to a
\* limit, after d ms
leftAfter(left, d) == IF left > d THEN left - d ELSE 0
sinceAfter(since, d, limit) == IF since + d < limit THEN since + d ELSE limit

\* time passes
DomTick ==
    /\ timers' = { [tm EXCEPT !.left = leftAfter(@, Quantum)] : tm \in timers }
    /\ dg' = [dg EXCEPT !.sinceInsert = sinceAfter(@, Quantum, debounceMs)]
    /\ UNCHANGED <<doc, dPc, processTimeout>>

----------------------------------------------------------------------------
(* content.js: the controls of the scanned page, and the notifications of  *)
(* changes that other contexts commit                                      *)

\* the usernames processPage injects a control for, in document order
RECURSIVE injectedUsers(_)
injectedUsers(d) ==
    IF d = <<>> THEN <<>>
    ELSE (IF injects(Head(d)) THEN << Tail(Head(d).href) >> ELSE <<>>)
             \o injectedUsers(Tail(d))

\* the controls createNoteButton makes for them
newButtons(cache, d) ==
    [i \in 1..Len(injectedUsers(d)) |-> createNoteButton(cache, injectedUsers(d)[i])]

\* init after loadNotes: the first processPage, with its controls
InitScan ==
    /\ cPc = "ready"
    /\ InitProcessPage
    /\ buttons' = buttons \o newButtons(notesCache, doc)

\* a processPage timer fires, with the controls of the scan
ScanTimer(tm) ==
    /\ ProcessPageTimer(tm)
    /\ buttons' = buttons \o newButtons(notesCache, doc)

RefreshStores ==
    { EmptyColl,
      [k \in { <<"a","l">> } |-> OneSample(<<"g">>)],
      [k \in { <<"a","l">> } |-> NewRecord(<<"g">>, <<>>, 1, 1)] }

\* the popup, another tab or the test harness commits a set of the notes key
OtherContextSets(v) ==
    /\ notes' = v
    /\ inbox' = [c \in Contexts |->
                    IF c \in Listening
                    THEN Append(inbox[c], [val |-> v, from |-> "other", removed |-> FALSE])
                    ELSE inbox[c]]
    /\ UNCHANGED <<now, notesCache, allNotes, cPc, pPc, writes, last>>

\* the test harness clears the store: chrome.storage.local.clear()
OtherContextClears ==
    /\ notes' = EmptyColl
    /\ inbox' = [c \in Contexts |->
                    IF c \in Listening
                    THEN Append(inbox[c], [val |-> EmptyColl, from |-> "other", removed |-> TRUE])
                    ELSE inbox[c]]
    /\ UNCHANGED <<now, notesCache, allNotes, cPc, pPc, writes, last>>

\* init's storage.onChanged listener on the scanned page: the cache is
\* replaced and updateAllIndicators sets the innerHTML of every control, and
\* the MutationObserver answers the nodes that adds with debouncedProcess
Refresh ==
    /\ dPc = "observing"
    /\ ContentOnChangedView
    /\ IF buttons # <<>>
       THEN /\ burstRoom(dg)
            /\ timers' = arm(timers, processTimeout)
            /\ processTimeout' = armHandle(timers, processTimeout)
            /\ dg' = insertionSeen(dg)
       ELSE UNCHANGED <<timers, processTimeout, dg>>
    /\ UNCHANGED <<doc, dPc>>

RefreshInit ==
    /\ DomInit
    /\ now = 1
    /\ notes \in RefreshStores
    /\ notesCache = EmptyColl
    /\ allNotes = EmptyColl
    /\ cPc = "init"
    /\ pPc = "closed"
    /\ writes = [c \in Contexts |-> <<>>]
    /\ inbox = [c \in Contexts |-> <<>>]
    /\ last = NoCall
    /\ ops = 0
    /\ buttons = <<>>

----------------------------------------------------------------------------
(* content.js: the note editor (the modal) and its input handlers          *)
(*                                                                         *)
(* An input handler that calls saveNote or deleteNote runs up to the await *)
(* of that call in one step; what it does after the await is run by the    *)
(* continuation of the storage.set it waits for. The handlers that await   *)
(* are kept in the order of their calls, which is the order of the         *)
(* content script's set calls.                                             *)

VARIABLES
    modal,      \* the editor: [exists, open, username, textarea, deleteShown]
    focus,      \* document.activeElement: "body" | "textarea" | "input"
    handlers    \* the handlers that await their saveNote / deleteNote call

editorVars == <<modal, focus, handlers>>

NoModal ==
    [exists |-> FALSE, open |-> FALSE, username |-> <<>>, textarea |-> <<>>,
     deleteShown |-> FALSE]

\* getNote(username): the record is migrated in place
getNoteCache(cache, username, t) ==
    IF normalizeUsername(username) \in DOMAIN cache
    THEN [cache EXCEPT ![normalizeUsername(username)] = migrateNoteFormat(@, t)]
    ELSE cache

\* openNoteModal(username): the modal afterwards
openNoteModal(cache, username) ==
    [exists |-> TRUE, open |-> TRUE, username |-> username,
     textarea |-> IF normalizeUsername(username) \in DOMAIN cache
                  THEN cache[normalizeUsername(username)].note ELSE <<>>,
     deleteShown |-> hasNote(cache, username)]

\* closeModal that leaves the editor open
closeModalNot(m) == m

\* closeModal
closeModal(m) == [m EXCEPT !.open = FALSE]

\* the handlers that call closeModal after their await
ClosesAfterAwait == {"quickScore", "saveClick", "deleteClick"}

\* a click on the control of a user: openNoteModal; the open editor's
\* backdrop covers the page
ClickControl(username) ==
    /\ cPc = "ready"
    /\ ~modal.open
    /\ notesCache' = getNoteCache(notesCache, username, now)
    /\ modal' = openNoteModal(notesCache', username)
    /\ focus' = "body"
    /\ UNCHANGED <<now, notes, allNotes, cPc, pPc, writes, inbox, last, handlers>>

\* the user types in the textarea of the open editor
TypeText(text) ==
    /\ modal.open
    /\ modal.textarea # text
    /\ modal' = [modal EXCEPT !.textarea = text]
    /\ focus' = "textarea"
    /\ UNCHANGED <<noteVars, handlers>>

\* keydown Tab on the document: textarea.focus()
PressTab ==
    /\ modal.open
    /\ focus # "textarea"
    /\ focus' = "textarea"
    /\ UNCHANGED <<noteVars, modal, handlers>>

\* the user clicks on the editor outside its textarea
ClickAway ==
    /\ modal.open
    /\ focus = "textarea"
    /\ focus' = "body"
    /\ UNCHANGED <<noteVars, modal, handlers>>

\* keydown of a digit on the document, up to the await of saveNote
PressDigit(num) ==
    /\ modal.open
    /\ focus # "textarea"
    /\ num >= 1 /\ num <= 5
    /\ saveNoteStarts(modal.username, modal.textarea, <<num>>)
    /\ handlers' = Append(handlers, "quickScore")
    /\ UNCHANGED <<modal, focus>>

\* click on a score button, up to the await of saveNote
ClickScore(score) ==
    /\ modal.open
    /\ saveNoteStarts(modal.username, modal.textarea, <<score>>)
    /\ handlers' = Append(handlers, "scoreClick")
    /\ focus' = "body"
    /\ UNCHANGED modal

\* click on the save button (or Shift+Enter in the textarea, which clicks
\* it), up to the await of saveNote
ClickSave ==
    /\ modal.open
    /\ saveNoteStarts(modal.username, modal.textarea, <<>>)
    /\ handlers' = Append(handlers, "saveClick")
    /\ UNCHANGED <<modal, focus>>

\* click on the delete button, confirmed, up to the await of deleteNote
ClickDelete ==
    /\ modal.open
    /\ modal.deleteShown
    /\ deleteNoteStarts(modal.username)
    /\ handlers' = Append(handlers, "deleteClick")
    /\ focus' = "body"
    /\ UNCHANGED modal

\* Escape, the close button, the cancel button
PressEscape ==
    /\ modal.open
    /\ modal' = closeModal(modal)
    /\ UNCHANGED <<noteVars, focus, handlers>>

\* the continuation of the oldest completed set call: saveNote or
\* deleteNote returns and the handler that awaited it goes on
EditorResume ==
    /\ ContentResume
    /\ handlers # <<>>
    /\ handlers' = Tail(handlers)
    /\ modal' = IF Head(handlers) \in ClosesAfterAwait THEN closeModal(modal) ELSE modal
    /\ UNCHANGED focus

EditorIdle ==
    /\ modal = NoModal
    /\ focus = "body"
    /\ handlers = <<>>

\* the content script starts with an empty store or with a record of the user
EditorInit ==
    /\ now = 1
    /\ notes \in { EmptyColl, [k \in { <<"a","l">> } |-> OneSample(<<"g">>)] }
    /\ notesCache = EmptyColl
    /\ allNotes = EmptyColl
    /\ cPc = "init"
    /\ pPc = "closed"
    /\ writes = [c \in Contexts |-> <<>>]
    /\ inbox = [c \in Contexts |-> <<>>]
    /\ last = NoCall
    /\ ops = 0
    /\ EditorIdle

----------------------------------------------------------------------------
(* content.js: the Alt+N shortcut of init                                  *)

\* the elements in which the shortcut leaves the key to the browser
TextFields == {"textarea", "input"}

\* the positions of the anchors that have a control beside them
withControl(d) == { i \in DOMAIN d : d[i].controls > 0 }

\* the positions of the anchors findUsernameElements returns
unprocessed(d) == { i \in DOMAIN d : found(d[i]) }

\* the least position of a set that is not empty
firstOf(S) == CHOOSE i \in S : \A j \in S : i <= j

\* usernameElements[0].username of findUsernameElements(), <<>> for none
fallback(d) ==
    IF unprocessed(d) # {} THEN Tail(d[firstOf(unprocessed(d))].href) ELSE <<>>

\* firstUsername: the data-username of the first control, else the fallback
firstUsername(d) ==
    IF withControl(d) # {}
    THEN Tail(d[firstOf(withControl(d))].href)
    ELSE fallback(d)

\* keydown Alt+N on the document. openNoteModal adds nodes to the body, which
\* the MutationObserver answers with debouncedProcess
AltN ==
    /\ dPc = "observing"
    /\ \/ /\ focus \in TextFields \/ modal.open \/ firstUsername(doc) = <<>>
          /\ UNCHANGED <<modal, timers, processTimeout, dg>>
       \/ /\ focus \notin TextFields
          /\ ~modal.open
          /\ firstUsername(doc) # <<>>
          /\ burstRoom(dg)
          /\ modal' = openNoteModal(notesCache, firstUsername(doc))
          /\ timers' = arm(timers, processTimeout)
          /\ processTimeout' = armHandle(timers, processTimeout)
          /\ dg' = insertionSeen(dg)
    /\ UNCHANGED <<doc, dPc, focus, handlers, noteVars>>

\* the user puts the caret in a text field of the host page
FocusInput ==
    /\ ~modal.open
    /\ focus # "input"
    /\ focus' = "input"
    /\ UNCHANGED <<modal, handlers>>

\* the user clicks on the page outside every text field
FocusBody ==
    /\ ~modal.open
    /\ focus # "body"
    /\ focus' = "body"
    /\ UNCHANGED <<modal, handlers>>

----------------------------------------------------------------------------
(* shared/logger.js: the log pipeline of one context                       *)
(*                                                                         *)
(* A log entry is the number of the xpnLog call that made it: 1, 2, ...;   *)
(* the entries the store holds from earlier sessions are numbered ..., -1, *)
(* 0. The storage calls of the context are answered in the order they     *)
(* were made; an answer and the continuation of the function that awaits   *)
(* it are one step. The xpnLog calls of the other handlers are the Log     *)
(* steps of this pipeline, taken on their own.                             *)

VARIABLES
    logStore,       \* chrome.storage.local[XPN_LOG_KEY], oldest entry first
    logQueue,       \* logger.js: logQueue
    flushTimeout,   \* logger.js: flushTimeout, a timer id (0 is null)
    isFlushing,     \* logger.js: isFlushing
    flushTimers,    \* the live setTimeout(flushLogs, 100) timers: [id, left]
    consoleOut,     \* the entries written to the console, in order
    logOps,         \* the storage calls not yet answered: [kind, by, val]
    fl,             \* the flushLogs call past its guard: [toFlush, awaited, combined]
    ga              \* the xpnGetLogs call: [pc, via, before, busy, result]

logVars == <<logStore, logQueue, flushTimeout, isFlushing, flushTimers,
             consoleOut, logOps, fl, ga>>

XPN_MAX_LOGS == 1000
flushDelayMs == 100
MaxLogs == 3

\* combined.slice(-XPN_MAX_LOGS) replaced by combined.slice(0, XPN_MAX_LOGS)
trimOldestKept(combined) ==
    IF Len(combined) > XPN_MAX_LOGS
    THEN sliceFirst(combined, XPN_MAX_LOGS)
    ELSE combined

\* flushLogs: combined.length > XPN_MAX_LOGS ? combined.slice(-XPN_MAX_LOGS) : combined
trimmed(combined) ==
    IF Len(combined) > XPN_MAX_LOGS
    THEN sliceLast(combined, XPN_MAX_LOGS)
    ELSE combined

\* setTimeout(flushLogs, 100) when flushTimeout is null
schedule(ts, handle) ==
    IF handle = 0
    THEN ts \cup { [id |-> freshId(ts, handle), left |-> flushDelayMs] }
    ELSE ts
scheduleHandle(ts, handle) ==
    IF handle = 0 THEN freshId(ts, handle) ELSE handle

\* the handle dropped without clearTimeout
clearedNothing(ts, handle) == ts

\* clearTimeout(flushTimeout)
cleared(ts, handle) == { tm \in ts : tm.id # handle }

NoFlush == [toFlush |-> <<>>, awaited |-> FALSE, combined |-> <<>>]
NoGetLogs == [pc |-> "idle", via |-> "none", before |-> 0, busy |-> FALSE, result |-> <<>>]

storageGet(by) == [kind |-> "get", by |-> by, val |-> <<>>]
storageSet(by, val) == [kind |-> "set", by |-> by, val |-> val]

\* the first storage call not yet answered
answers(kind, by) ==
    /\ logOps # <<>>
    /\ Head(logOps).kind = kind
    /\ Head(logOps).by = by

\* a finally block that never schedules another flush
followsUpNever(queue) == FALSE

\* flushLogs, finally: logQueue.length > 0 (then the timer is set when none is)
followsUp(queue) == queue # <<>>

\* flushLogs without the isFlushing test
flushStartsReentrant(queue, flushing) == ~(queue = <<>>)

\* flushLogs: if (logQueue.length === 0 || isFlushing) return
flushStarts(queue, flushing) == ~(queue = <<>> \/ flushing)

\* xpnGetLogs that reads without flushing first
getLogsNeverFlushes(queue) == FALSE

\* xpnGetLogs: if (logQueue.length > 0) await flushLogs()
getLogsFlushes(queue) == queue # <<>>

\* xpnLog(source, level, ...args)
Log ==
    /\ Len(consoleOut) < MaxLogs
    /\ consoleOut' = Append(consoleOut, Len(consoleOut) + 1)
    /\ logQueue' = Append(logQueue, Len(consoleOut) + 1)
    /\ flushTimers' = schedule(flushTimers, flushTimeout)
    /\ flushTimeout' = scheduleHandle(flushTimers, flushTimeout)
    /\ UNCHANGED <<logStore, isFlushing, logOps, fl, ga>>

\* a flush timer runs flushLogs, up to its first await
FlushTimer(tm) ==
    /\ tm \in flushTimers
    /\ tm.left = 0
    /\ flushTimers' = flushTimers \ {tm}
    /\ flushTimeout' = 0
    /\ IF flushStarts(logQueue, isFlushing)
       THEN /\ isFlushing' = TRUE
            /\ fl' = [NoFlush EXCEPT !.toFlush = logQueue]
            /\ logQueue' = <<>>
            /\ logOps' = Append(logOps, storageGet("flush"))
       ELSE UNCHANGED <<logQueue, isFlushing, logOps, fl>>
    /\ UNCHANGED <<logStore, consoleOut, ga>>

\* the drained entries put in front of the stored ones
combinePrepended(existing, toFlush) == toFlush \o existing

\* flushLogs: [...existing, ...toFlush]
combine(existing, toFlush) == existing \o toFlush

\* flushLogs after its storage.get: combine, trim, storage.set
FlushGot ==
    /\ answers("get", "flush")
    /\ fl' = [fl EXCEPT !.combined = combine(logStore, fl.toFlush)]
    /\ logOps' = Append(Tail(logOps), storageSet("flush", trimmed(combine(logStore, fl.toFlush))))
    /\ UNCHANGED <<logStore, logQueue, flushTimeout, isFlushing, flushTimers,
                   consoleOut, ga>>

\* the storage.set of flushLogs is done, then its finally block; an
\* xpnGetLogs that awaits this flush goes on to its storage.get
FlushSet ==
    /\ answers("set", "flush")
    /\ logStore' = Head(logOps).val
    /\ isFlushing' = FALSE
    /\ IF followsUp(logQueue)
       THEN /\ flushTimers' = schedule(flushTimers, flushTimeout)
            /\ flushTimeout' = scheduleHandle(flushTimers, flushTimeout)
       ELSE UNCHANGED <<flushTimers, flushTimeout>>
    /\ IF fl.awaited
       THEN /\ logOps' = Append(Tail(logOps), storageGet("getLogs"))
            /\ ga' = [ga EXCEPT !.pc = "reading"]
       ELSE /\ logOps' = Tail(logOps)
            /\ UNCHANGED ga
    /\ fl' = [fl EXCEPT !.awaited = FALSE]
    /\ UNCHANGED <<logQueue, consoleOut>>

\* xpnGetLogs up to its first await: clear the timer, flushLogs when the
\* queue holds entries (it returns at once when a flush is in progress),
\* else the storage.get
xpnGetLogs(via) ==
    /\ ga.pc \in {"idle", "done"}
    /\ flushTimers' = cleared(flushTimers, flushTimeout)
    /\ flushTimeout' = 0
    /\ IF getLogsFlushes(logQueue) /\ flushStarts(logQueue, isFlushing)
       THEN /\ isFlushing' = TRUE
            /\ fl' = [NoFlush EXCEPT !.toFlush = logQueue, !.awaited = TRUE]
            /\ logQueue' = <<>>
            /\ logOps' = Append(logOps, storageGet("flush"))
            /\ ga' = [pc |-> "flushing", via |-> via, before |-> Len(consoleOut),
                      busy |-> isFlushing, result |-> <<>>]
       ELSE /\ logOps' = Append(logOps, storageGet("getLogs"))
            /\ ga' = [pc |-> "reading", via |-> via, before |-> Len(consoleOut),
                      busy |-> isFlushing, result |-> <<>>]
            /\ UNCHANGED <<isFlushing, fl, logQueue>>
    /\ UNCHANGED <<logStore, consoleOut>>

\* the time left till the next live timer of ts is due (0: none is running)
nextDue(ts) ==
    IF \E tm \in ts : tm.left > 0
    THEN CHOOSE d \in { tm.left : tm \in ts } :
             d > 0 /\ \A tm \in ts : tm.left > 0 => d <= tm.left
    ELSE 0

elapsed(ts, d) == { [tm EXCEPT !.left = leftAfter(@, d)] : tm \in ts }

oldEntries(n) == [i \in 1..n |-> i - n]

LogIdle ==
    /\ logStore = <<>>
    /\ logQueue = <<>>
    /\ flushTimeout = 0
    /\ isFlushing = FALSE
    /\ flushTimers = {}
    /\ consoleOut = <<>>
    /\ logOps = <<>>
    /\ fl = NoFlush
    /\ ga = NoGetLogs

----------------------------------------------------------------------------
(* The log bridge: getExtensionLogs in the page's main world, and the      *)
(* __xpn_get_logs__ listener of logger.js in the content script            *)

VARIABLES
    responder,      \* logger.js is loaded in the document: its listeners are registered
    promises,       \* the promises of the getExtensionLogs calls: [state, value, by]
    listeners,      \* the promises whose once-listener for the response is registered
    bridgeTimers,   \* the live setTimeout(() => resolve('[]'), 2000) timers: [id, left]
    requests,       \* the request events the responder has received
    responses       \* the response events dispatched: [log, detail]

bridgeVars == <<responder, promises, listeners, bridgeTimers, requests, responses>>

bridgeTimeoutMs == 2000
MaxRequests == 2

RECURSIVE joined(_)
joined(list) ==
    IF list = <<>> THEN <<>>
    ELSE IF Len(list) = 1 THEN digitsOf(list[1])
    ELSE digitsOf(list[1]) \o <<",">> \o joined(Tail(list))

\* JSON.stringify of a list of entries
JSONstringify(list) == <<"[">> \o joined(list) \o <<"]">>

digitValue(c) == CHOOSE d \in 0..9 : DigitChars[d + 1] = c

\* the numbers of a comma-separated text read from position i on; cur is
\* the number being read (<<>>: none yet)
RECURSIVE parsed(_, _, _, _)
parsed(s, i, cur, acc) ==
    IF i > Len(s) \/ s[i] = "]"
    THEN acc \o cur
    ELSE IF s[i] = ","
    THEN parsed(s, i + 1, <<>>, acc \o cur)
    ELSE parsed(s, i + 1,
                << (IF cur = <<>> THEN 0 ELSE cur[1] * 10) + digitValue(s[i]) >>, acc)

\* JSON.parse of the text of a list of entries
JSONparse(s) == parsed(s, 2, <<>>, <<>>)

NoPromise == [state |-> "pending", value |-> <<>>, by |-> "none"]

\* resolve(v) that settles the promise again when it is settled already
resolveAgain(p, v, by) == [state |-> "resolved", value |-> v, by |-> by]

\* resolve(v) of a promise: the first call settles it
resolve(p, v, by) ==
    IF p.state = "pending"
    THEN [state |-> "resolved", value |-> v, by |-> by]
    ELSE p

\* getExtensionLogs: JSON.parse(logs) of the k-th call
getExtensionLogs(k) == JSONparse(promises[k].value)

\* the previous getExtensionLogs call has returned, and the responder is
\* not at work: one request in flight at a time
canRequest ==
    /\ Len(promises) < MaxRequests
    /\ promises # <<>> => promises[Len(promises)].state = "resolved"
    /\ ga.pc \in {"idle", "done"}

\* getExtensionLogs: the promise's executor. The once-listener, the request
\* event (the responder's listener runs up to its first await), the timeout
Request ==
    /\ canRequest
    /\ promises' = Append(promises, NoPromise)
    /\ listeners' = listeners \cup {Len(promises) + 1}
    /\ bridgeTimers' = bridgeTimers \cup { [id |-> Len(promises) + 1, left |-> bridgeTimeoutMs] }
    /\ IF responder
       THEN /\ requests' = requests + 1
            /\ xpnGetLogs("bridge")
       ELSE UNCHANGED <<requests, logVars>>
    /\ UNCHANGED <<responder, responses>>

\* xpnGetLogs called by the context's own code
CallGetLogs ==
    /\ responder
    /\ xpnGetLogs("call")
    /\ UNCHANGED bridgeVars

\* the storage.get of xpnGetLogs is answered and xpnGetLogs returns; the
\* responder's listener dispatches the response, whose once-listeners run
GetLogsDone ==
    /\ answers("get", "getLogs")
    /\ logOps' = Tail(logOps)
    /\ ga' = [ga EXCEPT !.pc = "done", !.result = logStore]
    /\ IF ga.via = "bridge"
       THEN /\ responses' = Append(responses,
                  [log |-> logStore, detail |-> JSONstringify(logStore)])
            /\ promises' = [k \in DOMAIN promises |->
                  IF k \in listeners
                  THEN resolve(promises[k], JSONstringify(logStore), "response")
                  ELSE promises[k]]
            /\ listeners' = {}
       ELSE UNCHANGED <<responses, promises, listeners>>
    /\ UNCHANGED <<logStore, logQueue, flushTimeout, isFlushing, flushTimers,
                   consoleOut, fl, responder, bridgeTimers, requests>>

\* the 2000 ms timer of a request runs: resolve('[]')
BridgeTimeout(tm) ==
    /\ tm \in bridgeTimers
    /\ tm.left = 0
    /\ bridgeTimers' = bridgeTimers \ {tm}
    /\ promises' = [promises EXCEPT ![tm.id] = resolve(@, <<"[", "]">>, "timeout")]
    /\ UNCHANGED <<responder, listeners, requests, responses, logVars>>

\* time passes till the next timer is due
LogElapse ==
    /\ nextDue(flushTimers \cup bridgeTimers) > 0
    /\ flushTimers' = elapsed(flushTimers, nextDue(flushTimers \cup bridgeTimers))
    /\ bridgeTimers' = elapsed(bridgeTimers, nextDue(flushTimers \cup bridgeTimers))
    /\ UNCHANGED <<logStore, logQueue, flushTimeout, isFlushing, consoleOut, logOps,
                   fl, ga, responder, promises, listeners, requests, responses>>

BridgeIdle ==
    /\ responder = FALSE
    /\ promises = <<>>
    /\ listeners = {}
    /\ bridgeTimers = {}
    /\ requests = 0
    /\ responses = <<>>

\* a context whose store holds the entries of earlier sessions
InitialLogSizes == {0, XPN_MAX_LOGS - 2, XPN_MAX_LOGS - 1, XPN_MAX_LOGS}

LogInit ==
    /\ logStore \in { oldEntries(n) : n \in InitialLogSizes }
    /\ logQueue = <<>>
    /\ flushTimeout = 0
    /\ isFlushing = FALSE
    /\ flushTimers = {}
    /\ consoleOut = <<>>
    /\ logOps = <<>>
    /\ fl = NoFlush
    /\ ga = NoGetLogs
    /\ responder = TRUE
    /\ promises = <<>>
    /\ listeners = {}
    /\ bridgeTimers = {}
    /\ requests = 0
    /\ responses = <<>>

\* a page with or without the content script, the store empty
BridgeInit ==
    /\ logStore = <<>>
    /\ logQueue = <<>>
    /\ flushTimeout = 0
    /\ isFlushing = FALSE
    /\ flushTimers = {}
    /\ consoleOut = <<>>
    /\ logOps = <<>>
    /\ fl = NoFlush
    /\ ga = NoGetLogs
    /\ responder \in BOOLEAN
    /\ promises = <<>>
    /\ listeners = {}
    /\ bridgeTimers = {}
    /\ requests = 0
    /\ responses = <<>>

----------------------------------------------------------------------------
(* shared/logger.js when chrome.storage.local rejects a call               *)

VARIABLES
    failed,         \* the functions one of whose storage calls was rejected
    uncaught        \* the functions an exception has left

failVars == <<failed, uncaught>>

\* no storage call is made inside a try block
caughtNowhere(fn) == FALSE

\* the storage calls of fn are made inside a try block with a catch
caught(fn) == fn \in {"flushLogs", "xpnGetLogs"}

\* a catch block that puts the drained entries back in front of the queue
afterFailureRequeued(queue, toFlush) == toFlush \o queue

\* flushLogs, catch: console.error only; toFlush is a local of the call that
\* failed, the queue is what xpnLog has pushed since the drain
afterFailure(queue, toFlush) == queue

\* flushLogs: the storage call it awaits is rejected. The catch block writes
\* to the console and the finally block runs; the entries of toFlush are in
\* neither the queue nor the store. An xpnGetLogs that awaits this flush goes
\* on to its storage.get
FlushFails ==
    /\ answers("get", "flush") \/ answers("set", "flush")
    /\ failed' = failed \cup {"flushLogs"}
    /\ isFlushing' = FALSE
    /\ logQueue' = afterFailure(logQueue, fl.toFlush)
    /\ IF logQueue' # <<>>
       THEN /\ flushTimers' = schedule(flushTimers, flushTimeout)
            /\ flushTimeout' = scheduleHandle(flushTimers, flushTimeout)
       ELSE UNCHANGED <<flushTimers, flushTimeout>>
    /\ IF caught("flushLogs")
       THEN /\ uncaught' = uncaught
            /\ IF fl.awaited
               THEN /\ logOps' = Append(Tail(logOps), storageGet("getLogs"))
                    /\ ga' = [ga EXCEPT !.pc = "reading"]
               ELSE /\ logOps' = Tail(logOps)
                    /\ UNCHANGED ga
       ELSE /\ uncaught' = uncaught \cup (IF fl.awaited THEN {"flushLogs", "xpnGetLogs"}
                                                        ELSE {"flushLogs"})
            /\ logOps' = Tail(logOps)
            /\ ga' = IF fl.awaited THEN [ga EXCEPT !.pc = "done"] ELSE ga
    /\ fl' = [fl EXCEPT !.awaited = FALSE]
    /\ UNCHANGED <<logStore, consoleOut, bridgeVars>>

\* xpnGetLogs: its storage.get is rejected; the catch block writes to the
\* console and returns []
GetLogsFails ==
    /\ answers("get", "getLogs")
    /\ failed' = failed \cup {"xpnGetLogs"}
    /\ logOps' = Tail(logOps)
    /\ ga' = [ga EXCEPT !.pc = "done", !.result = <<>>]
    /\ uncaught' = IF caught("xpnGetLogs") THEN uncaught ELSE uncaught \cup {"xpnGetLogs"}
    /\ IF ga.via = "bridge" /\ caught("xpnGetLogs")
       THEN /\ responses' = Append(responses, [log |-> <<>>, detail |-> JSONstringify(<<>>)])
            /\ promises' = [k \in DOMAIN promises |->
                  IF k \in listeners
                  THEN resolve(promises[k], JSONstringify(<<>>), "response")
                  ELSE promises[k]]
            /\ listeners' = {}
       ELSE UNCHANGED <<responses, promises, listeners>>
    /\ UNCHANGED <<logStore, logQueue, flushTimeout, isFlushing, flushTimers,
                   consoleOut, fl, responder, bridgeTimers, requests>>

FailIdle ==
    /\ failed = {}
    /\ uncaught = {}

----------------------------------------------------------------------------
(* shared/logger.js: the flush timer against the time of the xpnLog calls  *)

VARIABLES
    sinceLog        \* the time since the latest xpnLog call, up to flushDelayMs

clockVars == <<sinceLog>>

ClockIdle == sinceLog = flushDelayMs

\* xpnLog is called now
LogNow ==
    /\ Log
    /\ sinceLog' = 0

\* Quantum ms pass; a timer that is due may run late
ClockTick ==
    /\ flushTimers' = elapsed(flushTimers, Quantum)
    /\ sinceLog' = Min(sinceLog + Quantum, flushDelayMs)
    /\ flushTimers' # flushTimers \/ sinceLog' # sinceLog
    /\ UNCHANGED <<logStore, logQueue, flushTimeout, isFlushing, consoleOut, logOps,
                   fl, ga, bridgeVars>>

----------------------------------------------------------------------------
(* shared/logger.js: xpnClearLogs                                          *)

VARIABLES
    cl              \* the xpnClearLogs call: [pc, since]; since is the number
                    \* of xpnLog calls made when xpnClearLogs was called

clearVars == <<cl>>

NoClear == [pc |-> "idle", since |-> 0]

storageRemove(by) == [kind |-> "remove", by |-> by, val |-> <<>>]

\* xpnClearLogs up to its await: drop the queue, clear the timer,
\* storage.remove
xpnClearLogs ==
    /\ cl.pc \in {"idle", "done"}
    /\ logQueue' = <<>>
    /\ flushTimers' = cleared(flushTimers, flushTimeout)
    /\ flushTimeout' = 0
    /\ logOps' = Append(logOps, storageRemove("clear"))
    /\ cl' = [pc |-> "removing", since |-> Len(consoleOut)]
    /\ UNCHANGED <<logStore, isFlushing, consoleOut, fl, ga>>

\* the storage.remove of xpnClearLogs is done and xpnClearLogs returns
ClearRemoved ==
    /\ answers("remove", "clear")
    /\ logStore' = <<>>
    /\ logOps' = Tail(logOps)
    /\ cl' = [cl EXCEPT !.pc = "done"]
    /\ UNCHANGED <<logQueue, flushTimeout, isFlushing, flushTimers, consoleOut, fl, ga>>

ClearIdle == cl = NoClear

----------------------------------------------------------------------------
(* The log bridge when the observer asks again after a timeout: the        *)
(* __xpn_get_logs__ listener of logger.js may be at work for several       *)
(* request events at once. served[n] is its run for the n-th request:      *)
(* [pc, snap, alone], pc "flushing" (awaits the flushLogs it started), "afterFlush"*)
(* or "reading" (awaits its storage.get), "done" (has dispatched snap);    *)
(* alone says that no earlier run was at work when the request was made.   *)

VARIABLES
    served

lateVars == <<served>>

\* every run of the listener has dispatched its response
atRest(s) == \A n \in DOMAIN s : s[n].pc = "done"

\* the storage.get of the listener's run for request n
storageGetFor(n) == [kind |-> "get", by |-> "bridge", val |-> <<n>>]

\* the observer asks one request at a time: the promise of the previous
\* getExtensionLogs call is resolved, by its response or by its timeout
canRequestNext ==
    /\ Len(promises) < MaxRequests
    /\ promises # <<>> => promises[Len(promises)].state = "resolved"

\* getExtensionLogs: the promise's executor; the responder's listener runs
\* xpnGetLogs up to its first await
RequestNext ==
    /\ canRequestNext
    /\ responder
    /\ promises' = Append(promises, NoPromise)
    /\ listeners' = listeners \cup {Len(promises) + 1}
    /\ bridgeTimers' = bridgeTimers \cup { [id |-> Len(promises) + 1, left |-> bridgeTimeoutMs] }
    /\ requests' = requests + 1
    /\ flushTimers' = cleared(flushTimers, flushTimeout)
    /\ flushTimeout' = 0
    /\ IF getLogsFlushes(logQueue) /\ flushStarts(logQueue, isFlushing)
       THEN /\ isFlushing' = TRUE
            /\ fl' = [NoFlush EXCEPT !.toFlush = logQueue, !.awaited = TRUE]
            /\ logQueue' = <<>>
            /\ logOps' = Append(logOps, storageGet("flush"))
            /\ served' = Append(served, [pc |-> "flushing", snap |-> <<>>,
                                          alone |-> atRest(served)])
       ELSE /\ logOps' = Append(logOps, storageGetFor(Len(promises) + 1))
            /\ served' = Append(served, [pc |-> "reading", snap |-> <<>>,
                                          alone |-> atRest(served)])
            /\ UNCHANGED <<isFlushing, fl, logQueue>>
    /\ UNCHANGED <<logStore, consoleOut, ga, responder, responses>>

\* the flush is done: the run that awaited it goes on to its storage.get
FlushSetServed ==
    /\ FlushSet
    /\ served' = [n \in DOMAIN served |->
                     IF served[n].pc = "flushing"
                     THEN [served[n] EXCEPT !.pc = "afterFlush"]
                     ELSE served[n]]

\* a once-listener that resolves with '[]' whatever the event carries
respondEmpty(ps, ls, detail) ==
    [k \in DOMAIN ps |-> IF k \in ls THEN resolve(ps[k], <<"[", "]">>, "response") ELSE ps[k]]

\* the response event finds the once-listeners of every pending and every
\* timed-out request
respond(ps, ls, detail) ==
    [k \in DOMAIN ps |-> IF k \in ls THEN resolve(ps[k], detail, "response") ELSE ps[k]]

\* the storage.get of the run for request n is answered; xpnGetLogs
\* returns and the listener dispatches the response
Responds(n) ==
    /\ n \in DOMAIN served
    /\ \/ served[n].pc = "reading" /\ answers("get", "bridge") /\ Head(logOps).val = <<n>>
       \/ served[n].pc = "afterFlush" /\ answers("get", "getLogs")
    /\ logOps' = Tail(logOps)
    /\ served' = [served EXCEPT ![n].pc = "done", ![n].snap = logStore]
    /\ responses' = Append(responses,
          [log |-> logStore, detail |-> JSONstringify(logStore), req |-> n])
    /\ promises' = respond(promises, listeners, JSONstringify(logStore))
    /\ listeners' = {}
    /\ UNCHANGED <<logStore, logQueue, flushTimeout, isFlushing, flushTimers,
                   consoleOut, fl, ga, responder, bridgeTimers, requests>>

LateIdle == served = <<>>

----------------------------------------------------------------------------
(* The number and the colour of a control for every sample list the store *)
(* can hold: createNoteButton for a user who has the samples when the     *)
(* control is built, updateAllIndicators for a control built before.      *)

VARIABLES
    tList,      \* the values of the user's samples, oldest first
    tButton,    \* the control, <<>> before it is built
    tPc         \* "init", "empty" (built before the samples), "created", "refreshed"

tierVars == <<tList, tButton, tPc>>

TierUser == <<"a","l">>

\* every list of one to MaxScores values in 1..5
SampleValueLists == UNION { [1..n -> 1..5] : n \in 1..MaxScores }

\* the collection in which TierUser has the samples of the list
cacheOf(list) ==
    [k \in { TierUser } |->
        NewRecord(<<>>, [i \in DOMAIN list |-> [value |-> list[i], timestamp |-> i]], 1, 1)]

TierInit ==
    /\ tList \in SampleValueLists
    /\ tButton = <<>>
    /\ tPc = "init"

\* injectButton -> createNoteButton(username), the samples in the cache
TierCreate ==
    /\ tPc = "init"
    /\ tButton' = << createNoteButton(cacheOf(tList), TierUser) >>
    /\ tPc' = "created"
    /\ UNCHANGED tList

\* createNoteButton(username) before the user has a record
TierCreateEmpty ==
    /\ tPc = "init"
    /\ tButton' = << createNoteButton(EmptyColl, TierUser) >>
    /\ tPc' = "empty"
    /\ UNCHANGED tList

\* updateAllIndicators once the samples are in the cache
TierRefresh ==
    /\ tPc = "empty"
    /\ tButton' = << updateIndicator(cacheOf(tList), tButton[1]) >>
    /\ tPc' = "refreshed"
    /\ UNCHANGED tList

TierIdle ==
    /\ tList = <<>>
    /\ tButton = <<>>
    /\ tPc = "init"

----------------------------------------------------------------------------
(* content.js init: the navigation watcher. It is a second MutationObserver *)
(* on document.body (childList, subtree) whose callback compares            *)
(* location.href with lastUrl; the callbacks of both observers run after    *)
(* the script that changed the document, the one of setupObserver first.    *)

VARIABLES
    href,       \* location.href: the route shown
    lastUrl,    \* init: lastUrl
    navs,       \* the URL changes the host page has made
    navPending  \* the URL has changed and no scan has run since

navVars == <<href, lastUrl, navs, navPending>>

MaxNavs == 2
Routes == 0..1

NavAnchorKinds ==
    { Anchor(<<"/","a","l">>, <<"@","a","l">>, "header"),
      Anchor(<<"/","a","l">>, <<"@","a","l">>, "tweetText") }

\* the navigation watcher's callback: the live timers and the handle after
\* `if (location.href !== lastUrl) { lastUrl = location.href; debouncedProcess(); }`
navArm(ts, handle, url, seen) == IF url # seen THEN arm(ts, handle) ELSE ts
navHandle(ts, handle, url, seen) == IF url # seen THEN armHandle(ts, handle) ELSE handle

NavIdle ==
    /\ href = 0
    /\ lastUrl = 0
    /\ navs = 0
    /\ navPending = FALSE

NavInit ==
    /\ DomInit
    /\ href \in Routes
    /\ lastUrl = 0
    /\ navs = 0
    /\ navPending = FALSE

\* init: processPage, setupObserver, `let lastUrl = location.href` and the
\* navigation watcher
NavInitProcessPage ==
    /\ InitProcessPage
    /\ lastUrl' = href
    /\ UNCHANGED <<href, navs, navPending>>

\* history.pushState / replaceState / back by the host page: the URL
\* changes, the document does not
HostPushState(u) ==
    /\ dPc = "observing"
    /\ navs < MaxNavs
    /\ u # href
    /\ href' = u
    /\ navs' = navs + 1
    /\ navPending' = TRUE
    /\ UNCHANGED <<domVars, lastUrl>>

\* the host page removes a node: setupObserver's callback sees no added
\* node, the navigation watcher's callback runs
HostRemovesNode ==
    /\ dPc = "observing"
    /\ timers' = navArm(timers, processTimeout, href, lastUrl)
    /\ processTimeout' = navHandle(timers, processTimeout, href, lastUrl)
    /\ dg' = IF href # lastUrl THEN [dg EXCEPT !.burstScans = 0] ELSE dg
    /\ lastUrl' = href
    /\ UNCHANGED <<doc, dPc, href, navs, navPending>>

\* the host page inserts an anchor: both callbacks run
NavInsertAnchor(k) ==
    /\ dPc = "observing"
    /\ Len(doc) < MaxAnchors
    /\ burstRoom(dg)
    /\ doc' = Append(doc, k)
    /\ timers' = navArm(arm(timers, processTimeout), armHandle(timers, processTimeout),
                        href, lastUrl)
    /\ processTimeout' = navHandle(arm(timers, processTimeout),
                                   armHandle(timers, processTimeout), href, lastUrl)
    /\ dg' = [insertionSeen(dg) EXCEPT !.changed = TRUE]
    /\ lastUrl' = href
    /\ UNCHANGED <<dPc, href, navs, navPending>>

\* a processPage timer fires: the scan, and, when it injected buttons, both
\* callbacks for the wrappers it inserted
NavProcessPageTimer(tm) ==
    /\ tm \in timers
    /\ tm.left = 0
    /\ doc' = processPageDoc(doc)
    /\ LET scanned == [dg EXCEPT !.burstScans = @ + 1,
                                 !.gap = dg.sinceInsert,
                                 !.injected = injectedCount(doc),
                                 !.changed = FALSE,
                                 !.rescan = ~dg.changed]
           rest == timers \ {tm}
       IN  IF injectedCount(doc) > 0
           THEN /\ timers' = navArm(arm(rest, processTimeout),
                                    armHandle(rest, processTimeout), href, lastUrl)
                /\ processTimeout' = navHandle(arm(rest, processTimeout),
                                               armHandle(rest, processTimeout), href, lastUrl)
                /\ dg' = insertionSeen(scanned)
                /\ lastUrl' = href
           ELSE /\ timers' = rest
                /\ dg' = scanned
                /\ UNCHANGED <<processTimeout, lastUrl>>
    /\ navPending' = FALSE
    /\ UNCHANGED <<dPc, href, navs>>

----------------------------------------------------------------------------
(* content.js: the nodes the content script itself inserts under           *)
(* document.body while the MutationObserver of setupObserver is watching   *)

\* a click on the i-th control of the page: openNoteModal creates the editor
\* under document.body the first time and sets the text of its username
\* span every time, and the observer answers the added nodes with
\* debouncedProcess
OpenEditorObserved(i) ==
    /\ dPc = "observing"
    /\ i \in DOMAIN buttons
    /\ burstRoom(dg)
    /\ ClickControl(buttons[i].username)
    /\ timers' = arm(timers, processTimeout)
    /\ processTimeout' = armHandle(timers, processTimeout)
    /\ dg' = insertionSeen(dg)
    /\ UNCHANGED <<doc, dPc, buttons>>

\* the page and the store as the content script finds them: no anchor or
\* one profile anchor, no record or a record of its user
QuiesceInit ==
    /\ doc \in { <<>>, << Anchor(<<"/","a","l">>, <<"@","a","l">>, "header") >> }
    /\ dPc = "init"
    /\ timers = {}
    /\ processTimeout = 0
    /\ dg = NoHistory
    /\ now = 1
    /\ notes \in { EmptyColl, [k \in { <<"a","l">> } |-> OneSample(<<"g">>)] }
    /\ notesCache = EmptyColl
    /\ allNotes = EmptyColl
    /\ cPc = "init"
    /\ pPc = "closed"
    /\ writes = [c \in Contexts |-> <<>>]
    /\ inbox = [c \in Contexts |-> <<>>]
    /\ last = NoCall
    /\ ops = 0
    /\ buttons = <<>>
    /\ EditorIdle

----------------------------------------------------------------------------
(* content.js: a control built by createNoteButton against one snapshot of *)
(* the cache and brought up to date by updateAllIndicators against another *)

VARIABLES
    rBefore,    \* the cache when the control was built
    rAfter,     \* the cache of the refresh
    rButton,    \* the control, <<>> before it is built
    rPc         \* "init", "created", "refreshed"

renderVars == <<rBefore, rAfter, rButton, rPc>>

\* the states of a user's record: none, a note and no sample, one sample of
\* each value with and without a note, two samples
RecordStates ==
    { EmptyColl, [k \in { TierUser } |-> NewRecord(<<"g">>, <<>>, 1, 1)] }
      \cup { [k \in { TierUser } |->
                NewRecord(n, << [value |-> v, timestamp |-> 1] >>, 1, 1)] :
             n \in { <<>>, <<"g">> }, v \in 1..5 }
      \cup { cacheOf(<<4, 5>>) }

RenderInit ==
    /\ rBefore \in RecordStates
    /\ rAfter \in RecordStates
    /\ rButton = <<>>
    /\ rPc = "init"

\* injectButton -> createNoteButton(username)
RenderCreate ==
    /\ rPc = "init"
    /\ rButton' = << createNoteButton(rBefore, TierUser) >>
    /\ rPc' = "created"
    /\ UNCHANGED <<rBefore, rAfter>>

\* the cache is replaced and updateAllIndicators runs over the control
RenderRefresh ==
    /\ rPc = "created"
    /\ rButton' = << updateIndicator(rAfter, rButton[1]) >>
    /\ rPc' = "refreshed"
    /\ UNCHANGED <<rBefore, rAfter>>

RenderIdle ==
    /\ rBefore = EmptyColl
    /\ rAfter = EmptyColl
    /\ rButton = <<>>
    /\ rPc = "init"
----------------------------------------------------------------------------
(* shared/logger.js: the entries of the flushes that failed                *)

VARIABLES
    discarded       \* history: the entries drained by a flush that failed

dropVars == <<discarded>>

\* flushLogs fails: the entries of its toFlush are recorded
FlushFailsDiscards ==
    /\ FlushFails
    /\ discarded' = discarded \cup Range(fl.toFlush)

DropIdle ==
    /\ discarded = {}
----------------------------------------------------------------------------
(* shared/logger.js running in a second context on the same stored log     *)

VARIABLES
    oc              \* the other context's flushLogs: [pc, existing, flushes]

otherVars == <<oc>>

MaxOtherFlushes == 1

\* the entries of the other context are numbered 101, 102, ...
otherEntry(n) == 100 + n

\* the stored log is empty or one entry short of full
LogOtherInit ==
    /\ LogInit
    /\ Len(logStore) \in {0, XPN_MAX_LOGS - 1}

OtherIdle ==
    /\ oc = [pc |-> "idle", existing |-> <<>>, flushes |-> 0]

\* the other context's flushLogs: its storage.get is answered
OtherFlushGot ==
    /\ oc.pc = "idle"
    /\ oc.flushes < MaxOtherFlushes
    /\ oc' = [oc EXCEPT !.pc = "read", !.existing = logStore]
    /\ UNCHANGED logStore

\* the other context's flushLogs: combine, trim, storage.set
OtherFlushSet ==
    /\ oc.pc = "read"
    /\ logStore' = trimmed(combine(oc.existing, <<otherEntry(oc.flushes + 1)>>))
    /\ oc' = [oc EXCEPT !.pc = "idle", !.flushes = oc.flushes + 1]
----------------------------------------------------------------------------
(* background/background.js: the onInstalled listener next to the content  *)
(* script                                                                  *)

VARIABLES
    hasKey,         \* chrome.storage.local holds a value under the key 'notes'
    bg              \* the onInstalled listener: [reason, pc]

installVars == <<hasKey, bg>>

InstallReasons == {"install", "update"}

\* if (!existing.notes): a stored collection, empty or not, is an object
installWrites(present) == ~present

InstallIdle ==
    /\ hasKey = FALSE
    /\ bg = [reason |-> "none", pc |-> "done"]

\* the extension has been installed or updated: the listener is about to
\* run, the content script is starting on a page
InstallInit ==
    /\ now = 1
    /\ hasKey \in BOOLEAN
    /\ notes \in (IF hasKey THEN {EmptyColl, [k \in { <<"a","l">> } |-> OneSample(<<"g">>)]}
                            ELSE {EmptyColl})
    /\ notesCache = EmptyColl
    /\ allNotes = EmptyColl
    /\ cPc = "init"
    /\ pPc = "closed"
    /\ writes = [c \in Contexts |-> <<>>]
    /\ inbox = [c \in Contexts |-> <<>>]
    /\ last = NoCall
    /\ bg \in [reason : InstallReasons, pc : {"installed"}]

\* onInstalled, reason 'install': the storage.get is answered
InstalledGot ==
    /\ bg.pc = "installed"
    /\ bg.reason = "install"
    /\ bg' = [bg EXCEPT !.pc = IF installWrites(hasKey) THEN "writing" ELSE "done"]
    /\ UNCHANGED <<hasKey, noteVars>>

\* onInstalled, reason 'install': the storage.set of { notes: {} } is done
InstalledSet ==
    /\ bg.pc = "writing"
    /\ notes' = EmptyColl
    /\ hasKey' = TRUE
    /\ inbox' = [c \in Contexts |->
                    IF c \in Listening
                    THEN Append(inbox[c], [val |-> EmptyColl, from |-> "background",
                                          removed |-> FALSE])
                    ELSE inbox[c]]
    /\ bg' = [bg EXCEPT !.pc = "done"]
    /\ UNCHANGED <<now, notesCache, allNotes, cPc, pPc, writes, last>>

\* onInstalled, reason 'update': no storage call
InstalledUpdate ==
    /\ bg.pc = "installed"
    /\ bg.reason = "update"
    /\ bg' = [bg EXCEPT !.pc = "done"]
    /\ UNCHANGED <<hasKey, noteVars>>

\* a storage.set of the content script is done: the key exists
InstallStorageSetOk ==
    /\ StorageSetOk("content")
    /\ hasKey' = TRUE
    /\ UNCHANGED bg
----------------------------------------------------------------------------
(* content.js: Date.now() is the system's wall clock, which the system can  *)
(* set back between two calls                                              *)

VARIABLES
    wentBack        \* history: Date.now() has returned less than it did before

stampVars == <<wentBack>>

StampIdle ==
    /\ wentBack = FALSE

\* the wall clock is set back
ClockSetBack ==
    /\ now > 1
    /\ now' = now - 1
    /\ wentBack' = TRUE
    /\ UNCHANGED <<notes, notesCache, allNotes, cPc, pPc, writes, inbox, last>>

----------------------------------------------------------------------------
(* Specifications                                                          *)

vars == <<normVars, noteVars, drvVars, ops, domVars, logVars, bridgeVars, migVars, viewVars, failVars, clockVars, editorVars, clearVars, retVars, lateVars, tierVars, navVars, renderVars, dropVars, otherVars, installVars, stampVars>>

\* normalizeUsername on every short string
offNorm == <<noteVars, drvVars, ops, domVars, logVars, bridgeVars, migVars, viewVars, failVars, clockVars, editorVars, clearVars, retVars, lateVars, tierVars, navVars, renderVars, dropVars, otherVars, installVars, stampVars>>
NormInitAll == NormInit /\ NotesIdle /\ DrvIdle /\ ops = 0 /\ DomIdle /\ LogIdle /\ BridgeIdle /\ MigIdle /\ ViewIdle /\ FailIdle /\ ClockIdle /\ EditorIdle /\ ClearIdle /\ RetIdle /\ LateIdle /\ TierIdle /\ NavIdle /\ RenderIdle /\ DropIdle /\ OtherIdle /\ InstallIdle /\ StampIdle
NormNextAll ==
    \/ NormalizeOnce /\ UNCHANGED offNorm
    \/ NormalizeAgain /\ UNCHANGED offNorm
SpecNorm == NormInitAll /\ [][NormNextAll]_vars

\* the content script alone, on an empty collection: saveNote and deleteScoreAtIndex
offUpsert == <<normVars, drvVars, ops, domVars, logVars, bridgeVars, migVars, viewVars, failVars, clockVars, editorVars, clearVars, retVars, lateVars, tierVars, navVars, renderVars, dropVars, otherVars, installVars, stampVars>>
UpsertInitAll == UpsertInit /\ NormIdle /\ DrvIdle /\ ops = 0 /\ DomIdle /\ LogIdle /\ BridgeIdle /\ MigIdle /\ ViewIdle /\ FailIdle /\ ClockIdle /\ EditorIdle /\ ClearIdle /\ RetIdle /\ LateIdle /\ TierIdle /\ NavIdle /\ RenderIdle /\ DropIdle /\ OtherIdle /\ InstallIdle /\ StampIdle
UpsertNext ==
    \/ ContentLoadNotes /\ UNCHANGED offUpsert
    \/ \E u \in RawUsernames, t \in NoteTexts, s \in ScoreArgs :
          SaveNote(u, t, s) /\ UNCHANGED offUpsert
    \/ \E u \in RawUsernames, i \in 0..MaxScores :
          DeleteScoreAtIndex(u, i) /\ UNCHANGED offUpsert
    \/ StorageSetOk("content") /\ UNCHANGED offUpsert
    \/ ContentResume /\ UNCHANGED offUpsert
    \/ ContentOnChanged /\ UNCHANGED offUpsert
    \/ Tick /\ UNCHANGED offUpsert
SpecUpsert == UpsertInitAll /\ [][UpsertNext]_vars

\* the content script alone, on an empty collection: the six calls of SixScores
offSix == <<normVars, ops, domVars, logVars, bridgeVars, migVars, viewVars, failVars, clockVars, editorVars, clearVars, retVars, lateVars, tierVars, navVars, renderVars, dropVars, otherVars, installVars, stampVars>>
SixInitAll == SixInit /\ NormIdle /\ ops = 0 /\ DomIdle /\ LogIdle /\ BridgeIdle /\ MigIdle /\ ViewIdle /\ FailIdle /\ ClockIdle /\ EditorIdle /\ ClearIdle /\ RetIdle /\ LateIdle /\ TierIdle /\ NavIdle /\ RenderIdle /\ DropIdle /\ OtherIdle /\ InstallIdle /\ StampIdle
SixNext ==
    \/ ContentLoadNotes /\ UNCHANGED <<offSix, drvVars>>
    \/ SixCall /\ UNCHANGED offSix
    \/ StorageSetOk("content") /\ UNCHANGED <<offSix, drvVars>>
    \/ ContentResume /\ UNCHANGED <<offSix, drvVars>>
    \/ ContentOnChanged /\ UNCHANGED <<offSix, drvVars>>
    \/ Tick /\ UNCHANGED <<offSix, drvVars>>
SpecSix == SixInitAll /\ [][SixNext]_vars

\* the content script and the popup on one store, with legacy records, imports
\* and failing writes
offNotes == <<normVars, drvVars, domVars, logVars, bridgeVars, migVars, viewVars, failVars, clockVars, editorVars, clearVars, retVars, lateVars, tierVars, navVars, renderVars, dropVars, otherVars, installVars, stampVars>>
NotesInitAll == NotesInit /\ NormIdle /\ DrvIdle /\ DomIdle /\ LogIdle /\ BridgeIdle /\ MigIdle /\ ViewIdle /\ FailIdle /\ ClockIdle /\ EditorIdle /\ ClearIdle /\ RetIdle /\ LateIdle /\ TierIdle /\ NavIdle /\ RenderIdle /\ DropIdle /\ OtherIdle /\ InstallIdle /\ StampIdle
NotesNext ==
    \/ ContentLoadNotes /\ UNCHANGED <<offNotes, ops>>
    \/ PopupLoadNotes /\ UNCHANGED <<offNotes, ops>>
    \/ \E u \in RawUsernames, t \in NoteTexts, s \in { <<>>, <<5>> } :
          Spend /\ SaveNote(u, t, s) /\ UNCHANGED offNotes
    \/ \E u \in RawUsernames, i \in 0..1 :
          Spend /\ DeleteScoreAtIndex(u, i) /\ UNCHANGED offNotes
    \/ \E u \in RawUsernames : Spend /\ ContentDeleteNote(u) /\ UNCHANGED offNotes
    \/ \E u \in DOMAIN allNotes, t \in NoteTexts, c \in BOOLEAN :
          Spend /\ PopupEditNote(u, t, c) /\ UNCHANGED offNotes
    \/ \E u \in DOMAIN allNotes : Spend /\ PopupDeleteNote(u) /\ UNCHANGED offNotes
    \/ \E f \in ImportFiles : Spend /\ PopupImportNotes(f) /\ UNCHANGED offNotes
    \/ \E c \in Contexts : StorageSetOk(c) /\ UNCHANGED <<offNotes, ops>>
    \/ \E c \in Contexts : StorageSetFail(c) /\ UNCHANGED <<offNotes, ops>>
    \/ ContentResume /\ UNCHANGED <<offNotes, ops>>
    \/ PopupResume /\ UNCHANGED <<offNotes, ops>>
    \/ ContentOnChanged /\ UNCHANGED <<offNotes, ops>>
    \/ PopupOnChanged /\ UNCHANGED <<offNotes, ops>>
    \/ Tick /\ UNCHANGED <<offNotes, ops>>
SpecNotes == NotesInitAll /\ [][NotesNext]_vars

\* the annotation engine on a page whose host inserts nodes
offDom == <<normVars, noteVars, drvVars, ops, logVars, bridgeVars, migVars, viewVars, failVars, clockVars, editorVars, clearVars, retVars, lateVars, tierVars, navVars, renderVars, dropVars, otherVars, installVars, stampVars>>
DomInitAll == DomInit /\ NormIdle /\ NotesIdle /\ DrvIdle /\ ops = 0 /\ LogIdle /\ BridgeIdle /\ MigIdle /\ ViewIdle /\ FailIdle /\ ClockIdle /\ EditorIdle /\ ClearIdle /\ RetIdle /\ LateIdle /\ TierIdle /\ NavIdle /\ RenderIdle /\ DropIdle /\ OtherIdle /\ InstallIdle /\ StampIdle
DomNext ==
    \/ InitProcessPage /\ UNCHANGED offDom
    \/ \E k \in AnchorKinds : HostInsertAnchor(k) /\ UNCHANGED offDom
    \/ HostInsertOther /\ UNCHANGED offDom
    \/ HostNavigate /\ UNCHANGED offDom
    \/ \E tm \in timers : ProcessPageTimer(tm) /\ UNCHANGED offDom
    \/ DomTick /\ UNCHANGED offDom
SpecDom == DomInitAll /\ [][DomNext]_vars

\* the log pipeline of a context whose code logs and reads the log
offLog == <<normVars, noteVars, drvVars, ops, domVars, migVars, viewVars, failVars, clockVars, editorVars, clearVars, retVars, lateVars, tierVars, navVars, renderVars, dropVars, otherVars, installVars, stampVars>>
LogInitAll == LogInit /\ NormIdle /\ NotesIdle /\ DrvIdle /\ ops = 0 /\ DomIdle /\ MigIdle /\ ViewIdle /\ FailIdle /\ ClockIdle /\ EditorIdle /\ ClearIdle /\ RetIdle /\ LateIdle /\ TierIdle /\ NavIdle /\ RenderIdle /\ DropIdle /\ OtherIdle /\ InstallIdle /\ StampIdle
LogNext ==
    \/ Log /\ UNCHANGED bridgeVars /\ UNCHANGED offLog
    \/ \E tm \in flushTimers : FlushTimer(tm) /\ UNCHANGED bridgeVars /\ UNCHANGED offLog
    \/ FlushGot /\ UNCHANGED bridgeVars /\ UNCHANGED offLog
    \/ FlushSet /\ UNCHANGED bridgeVars /\ UNCHANGED offLog
    \/ CallGetLogs /\ UNCHANGED offLog
    \/ GetLogsDone /\ UNCHANGED offLog
    \/ LogElapse /\ UNCHANGED offLog
SpecLog == LogInitAll /\ [][LogNext]_vars

\* time passes, a timer that is due runs and the store answers every call
SpecLogFair ==
    /\ LogInitAll
    /\ [][LogNext]_vars
    /\ WF_vars(LogElapse /\ UNCHANGED offLog)
    /\ WF_vars(\E tm \in flushTimers : FlushTimer(tm) /\ UNCHANGED bridgeVars /\ UNCHANGED offLog)
    /\ WF_vars(FlushGot /\ UNCHANGED bridgeVars /\ UNCHANGED offLog)
    /\ WF_vars(FlushSet /\ UNCHANGED bridgeVars /\ UNCHANGED offLog)
    /\ WF_vars(GetLogsDone /\ UNCHANGED offLog)

\* the log bridge between the page and the content script
BridgeInitAll == BridgeInit /\ NormIdle /\ NotesIdle /\ DrvIdle /\ ops = 0 /\ DomIdle /\ MigIdle /\ ViewIdle /\ FailIdle /\ ClockIdle /\ EditorIdle /\ ClearIdle /\ RetIdle /\ LateIdle /\ TierIdle /\ NavIdle /\ RenderIdle /\ DropIdle /\ OtherIdle /\ InstallIdle /\ StampIdle
BridgeNext ==
    \/ responder /\ Log /\ UNCHANGED bridgeVars /\ UNCHANGED offLog
    \/ \E tm \in flushTimers : FlushTimer(tm) /\ UNCHANGED bridgeVars /\ UNCHANGED offLog
    \/ FlushGot /\ UNCHANGED bridgeVars /\ UNCHANGED offLog
    \/ FlushSet /\ UNCHANGED bridgeVars /\ UNCHANGED offLog
    \/ Request /\ UNCHANGED offLog
    \/ GetLogsDone /\ UNCHANGED offLog
    \/ \E tm \in bridgeTimers : BridgeTimeout(tm) /\ UNCHANGED offLog
    \/ LogElapse /\ UNCHANGED offLog
SpecBridge == BridgeInitAll /\ [][BridgeNext]_vars

\* time passes and a timer that is due runs; the storage may never answer
SpecBridgeFair ==
    /\ BridgeInitAll
    /\ [][BridgeNext]_vars
    /\ WF_vars(LogElapse /\ UNCHANGED offLog)
    /\ WF_vars(\E tm \in bridgeTimers : BridgeTimeout(tm) /\ UNCHANGED offLog)

\* the log pipeline on a store that may reject any call
offLogFail == <<normVars, noteVars, drvVars, ops, domVars, migVars, viewVars, clockVars, editorVars, clearVars, retVars, lateVars, tierVars, navVars, renderVars, dropVars, otherVars, installVars, stampVars>>
LogFailInitAll ==
    LogInit /\ FailIdle /\ NormIdle /\ NotesIdle /\ DrvIdle /\ ops = 0 /\ DomIdle /\ MigIdle /\ ViewIdle /\ ClockIdle /\ EditorIdle /\ ClearIdle /\ RetIdle /\ LateIdle /\ TierIdle /\ NavIdle /\ RenderIdle /\ DropIdle /\ OtherIdle /\ InstallIdle /\ StampIdle
LogFailNext ==
    \/ Log /\ UNCHANGED <<bridgeVars, failVars, offLogFail>>
    \/ \E tm \in flushTimers : FlushTimer(tm) /\ UNCHANGED <<bridgeVars, failVars, offLogFail>>
    \/ FlushGot /\ UNCHANGED <<bridgeVars, failVars, offLogFail>>
    \/ FlushSet /\ UNCHANGED <<bridgeVars, failVars, offLogFail>>
    \/ FlushFails /\ UNCHANGED offLogFail
    \/ CallGetLogs /\ UNCHANGED <<failVars, offLogFail>>
    \/ GetLogsDone /\ UNCHANGED <<failVars, offLogFail>>
    \/ GetLogsFails /\ UNCHANGED offLogFail
    \/ LogElapse /\ UNCHANGED <<failVars, offLogFail>>
SpecLogFail == LogFailInitAll /\ [][LogFailNext]_vars

\* the log pipeline with the time between xpnLog calls and timer runs
offLogClock == <<normVars, noteVars, drvVars, ops, domVars, migVars, viewVars, failVars, editorVars, clearVars, retVars, lateVars, tierVars, navVars, renderVars, dropVars, otherVars, installVars, stampVars>>
LogClockInitAll ==
    LogInit /\ ClockIdle /\ NormIdle /\ NotesIdle /\ DrvIdle /\ ops = 0 /\ DomIdle /\ MigIdle /\ ViewIdle /\ FailIdle /\ EditorIdle /\ ClearIdle /\ RetIdle /\ LateIdle /\ TierIdle /\ NavIdle /\ RenderIdle /\ DropIdle /\ OtherIdle /\ InstallIdle /\ StampIdle
LogClockNext ==
    \/ LogNow /\ UNCHANGED <<bridgeVars, offLogClock>>
    \/ \E tm \in flushTimers : FlushTimer(tm) /\ UNCHANGED <<bridgeVars, clockVars, offLogClock>>
    \/ FlushGot /\ UNCHANGED <<bridgeVars, clockVars, offLogClock>>
    \/ FlushSet /\ UNCHANGED <<bridgeVars, clockVars, offLogClock>>
    \/ CallGetLogs /\ UNCHANGED <<clockVars, offLogClock>>
    \/ GetLogsDone /\ UNCHANGED <<clockVars, offLogClock>>
    \/ ClockTick /\ UNCHANGED offLogClock
SpecLogClock == LogClockInitAll /\ [][LogClockNext]_vars

\* the content script alone with the editor and the user's input
offEditor == <<normVars, drvVars, domVars, logVars, bridgeVars, migVars, viewVars, failVars, clockVars, clearVars, retVars, lateVars, tierVars, navVars, renderVars, dropVars, otherVars, installVars, stampVars>>
EditorInitAll ==
    EditorInit /\ NormIdle /\ DrvIdle /\ DomIdle /\ LogIdle /\ BridgeIdle /\ MigIdle /\ ViewIdle /\ FailIdle /\ ClockIdle /\ ClearIdle /\ RetIdle /\ LateIdle /\ TierIdle /\ NavIdle /\ RenderIdle /\ DropIdle /\ OtherIdle /\ InstallIdle /\ StampIdle
EditorNext ==
    \/ ContentLoadNotes /\ UNCHANGED <<offEditor, ops, editorVars>>
    \/ ClickControl(<<"A","l">>) /\ UNCHANGED <<offEditor, ops>>
    \/ \E t \in NoteTexts : TypeText(t) /\ UNCHANGED <<offEditor, ops>>
    \/ PressTab /\ UNCHANGED <<offEditor, ops>>
    \/ ClickAway /\ UNCHANGED <<offEditor, ops>>
    \/ \E num \in {4, 5} : Spend /\ PressDigit(num) /\ UNCHANGED offEditor
    \/ Spend /\ ClickScore(3) /\ UNCHANGED offEditor
    \/ Spend /\ ClickSave /\ UNCHANGED offEditor
    \/ Spend /\ ClickDelete /\ UNCHANGED offEditor
    \/ PressEscape /\ UNCHANGED <<offEditor, ops>>
    \/ StorageSetOk("content") /\ UNCHANGED <<offEditor, ops, editorVars>>
    \/ EditorResume /\ UNCHANGED <<offEditor, ops>>
    \/ ContentOnChanged /\ UNCHANGED <<offEditor, ops, editorVars>>
SpecEditor == EditorInitAll /\ [][EditorNext]_vars

\* the annotation engine, the editor and the Alt+N shortcut
offShortcut == <<normVars, drvVars, logVars, bridgeVars, migVars, viewVars, failVars, clockVars, clearVars, retVars, lateVars, tierVars, navVars, renderVars, dropVars, otherVars, installVars, stampVars>>
ShortcutInitAll ==
    DomInit /\ NormIdle /\ NotesIdle /\ DrvIdle /\ ops = 0 /\ LogIdle /\ BridgeIdle /\ MigIdle /\ ViewIdle /\ FailIdle /\ ClockIdle /\ EditorIdle /\ ClearIdle /\ RetIdle /\ LateIdle /\ TierIdle /\ NavIdle /\ RenderIdle /\ DropIdle /\ OtherIdle /\ InstallIdle /\ StampIdle
ShortcutNext ==
    \/ InitProcessPage /\ UNCHANGED <<offShortcut, noteVars, ops, editorVars>>
    \/ \E k \in AnchorKinds :
          HostInsertAnchor(k) /\ UNCHANGED <<offShortcut, noteVars, ops, editorVars>>
    \/ \E tm \in timers :
          ProcessPageTimer(tm) /\ UNCHANGED <<offShortcut, noteVars, ops, editorVars>>
    \/ DomTick /\ UNCHANGED <<offShortcut, noteVars, ops, editorVars>>
    \/ Spend /\ AltN /\ UNCHANGED offShortcut
    \/ FocusInput /\ UNCHANGED <<offShortcut, noteVars, ops, domVars>>
    \/ FocusBody /\ UNCHANGED <<offShortcut, noteVars, ops, domVars>>
    \/ PressTab /\ UNCHANGED <<offShortcut, ops, domVars>>
    \/ PressEscape /\ UNCHANGED <<offShortcut, ops, domVars>>
SpecShortcut == ShortcutInitAll /\ [][ShortcutNext]_vars

\* the log pipeline of a context whose code logs, reads and clears the log
offLogClear == <<normVars, noteVars, drvVars, ops, domVars, migVars, viewVars, failVars, clockVars, editorVars, retVars, lateVars, tierVars, navVars, renderVars, dropVars, otherVars, installVars, stampVars>>
LogClearInitAll ==
    LogInit /\ ClearIdle /\ NormIdle /\ NotesIdle /\ DrvIdle /\ ops = 0 /\ DomIdle /\ MigIdle /\ ViewIdle /\ FailIdle /\ ClockIdle /\ EditorIdle /\ RetIdle /\ LateIdle /\ TierIdle /\ NavIdle /\ RenderIdle /\ DropIdle /\ OtherIdle /\ InstallIdle /\ StampIdle
LogClearNext ==
    \/ Log /\ UNCHANGED <<bridgeVars, clearVars, offLogClear>>
    \/ \E tm \in flushTimers :
          FlushTimer(tm) /\ UNCHANGED <<bridgeVars, clearVars, offLogClear>>
    \/ FlushGot /\ UNCHANGED <<bridgeVars, clearVars, offLogClear>>
    \/ FlushSet /\ UNCHANGED <<bridgeVars, clearVars, offLogClear>>
    \/ CallGetLogs /\ UNCHANGED <<clearVars, offLogClear>>
    \/ GetLogsDone /\ UNCHANGED <<clearVars, offLogClear>>
    \/ xpnClearLogs /\ UNCHANGED <<bridgeVars, offLogClear>>
    \/ ClearRemoved /\ UNCHANGED <<bridgeVars, offLogClear>>
    \/ LogElapse /\ UNCHANGED <<clearVars, offLogClear>>
SpecLogClear == LogClearInitAll /\ [][LogClearNext]_vars

\* the migrations applied once and twice to every kind of stored record
offMig == <<normVars, noteVars, drvVars, ops, domVars, logVars, bridgeVars, viewVars, failVars, clockVars, editorVars, clearVars, retVars, lateVars, tierVars, navVars, renderVars, dropVars, otherVars, installVars, stampVars>>
MigInitAll ==
    MigInit /\ NormIdle /\ NotesIdle /\ DrvIdle /\ ops = 0 /\ DomIdle /\ LogIdle /\ BridgeIdle /\ ViewIdle /\ FailIdle /\ ClockIdle /\ EditorIdle /\ ClearIdle /\ RetIdle /\ LateIdle /\ TierIdle /\ NavIdle /\ RenderIdle /\ DropIdle /\ OtherIdle /\ InstallIdle /\ StampIdle
MigNext ==
    \/ MigrateOnce /\ UNCHANGED offMig
    \/ MigrateLater /\ UNCHANGED offMig
    \/ MigrateAgain /\ UNCHANGED offMig
SpecMig == MigInitAll /\ [][MigNext]_vars

\* the content script and the popup on one store that accepts every write
offFrame == <<normVars, drvVars, domVars, logVars, bridgeVars, migVars, viewVars, failVars, clockVars, editorVars, clearVars, retVars, lateVars, tierVars, navVars, renderVars, dropVars, otherVars, installVars, stampVars>>
FrameInitAll ==
    FrameInit /\ NormIdle /\ DrvIdle /\ DomIdle /\ LogIdle /\ BridgeIdle /\ MigIdle /\ ViewIdle /\ FailIdle /\ ClockIdle /\ EditorIdle /\ ClearIdle /\ RetIdle /\ LateIdle /\ TierIdle /\ NavIdle /\ RenderIdle /\ DropIdle /\ OtherIdle /\ InstallIdle /\ StampIdle
FrameNext ==
    \/ ContentLoadNotes /\ UNCHANGED <<offFrame, ops>>
    \/ PopupLoadNotes /\ UNCHANGED <<offFrame, ops>>
    \/ \E t \in NoteTexts, s \in { <<>>, <<5>> } :
          Spend /\ SaveNote(<<"A","l">>, t, s) /\ UNCHANGED offFrame
    \/ \E i \in 0..1 : Spend /\ DeleteScoreAtIndex(<<"@","a","l">>, i) /\ UNCHANGED offFrame
    \/ \E u \in DOMAIN allNotes :
          Spend /\ PopupEditNote(u, <<"h">>, TRUE) /\ UNCHANGED offFrame
    \/ \E u \in DOMAIN allNotes : Spend /\ PopupDeleteNote(u) /\ UNCHANGED offFrame
    \/ \E c \in Contexts : StorageSetOk(c) /\ UNCHANGED <<offFrame, ops>>
    \/ ContentResume /\ UNCHANGED <<offFrame, ops>>
    \/ PopupResume /\ UNCHANGED <<offFrame, ops>>
    \/ ContentOnChanged /\ UNCHANGED <<offFrame, ops>>
    \/ PopupOnChanged /\ UNCHANGED <<offFrame, ops>>
    \/ Tick /\ UNCHANGED <<offFrame, ops>>
SpecFrame == FrameInitAll /\ [][FrameNext]_vars

\* the content script alone, on an empty collection, with controls on the page
offView == <<normVars, drvVars, domVars, logVars, bridgeVars, migVars, failVars, clockVars, editorVars, clearVars, retVars, lateVars, tierVars, navVars, renderVars, dropVars, otherVars, installVars, stampVars>>
ViewInitAll ==
    ViewInit /\ NormIdle /\ DrvIdle /\ DomIdle /\ LogIdle /\ BridgeIdle /\ MigIdle /\ FailIdle /\ ClockIdle /\ EditorIdle /\ ClearIdle /\ RetIdle /\ LateIdle /\ TierIdle /\ NavIdle /\ RenderIdle /\ DropIdle /\ OtherIdle /\ InstallIdle /\ StampIdle
ViewNext ==
    \/ ContentLoadNotes /\ UNCHANGED <<offView, ops, viewVars>>
    \/ InjectControl /\ UNCHANGED <<offView, ops, noteVars>>
    \/ \E t \in ViewTexts, s \in ViewScores :
          Upsert(<<"A","l","i","c","e">>, t, s) /\ UNCHANGED <<offView, viewVars>>
    \/ StorageSetOk("content") /\ UNCHANGED <<offView, ops, viewVars>>
    \/ ContentResumeView /\ UNCHANGED <<offView, ops>>
    \/ ContentOnChangedView /\ UNCHANGED <<offView, ops>>
    \/ Tick /\ UNCHANGED <<offView, ops, viewVars>>
SpecView == ViewInitAll /\ [][ViewNext]_vars

\* the content script with its controls and the popup, on one store that
\* accepts every write
offSync == <<normVars, drvVars, domVars, logVars, bridgeVars, migVars, failVars, clockVars, editorVars, clearVars, retVars, lateVars, tierVars, navVars, renderVars, dropVars, otherVars, installVars, stampVars>>
SyncInitAll ==
    SyncInit /\ NormIdle /\ DrvIdle /\ DomIdle /\ LogIdle /\ BridgeIdle /\ MigIdle /\ FailIdle /\ ClockIdle /\ EditorIdle /\ ClearIdle /\ RetIdle /\ LateIdle /\ TierIdle /\ NavIdle /\ RenderIdle /\ DropIdle /\ OtherIdle /\ InstallIdle /\ StampIdle
SyncNext ==
    \/ ContentLoadNotes /\ UNCHANGED <<offSync, ops, viewVars>>
    \/ PopupLoadNotes /\ UNCHANGED <<offSync, ops, viewVars>>
    \/ InjectControl /\ UNCHANGED <<offSync, ops, noteVars>>
    \/ \E s \in { <<>>, <<5>> } :
          Spend /\ SaveNote(<<"b","o">>, <<>>, s) /\ UNCHANGED <<offSync, viewVars>>
    \/ \E u \in DOMAIN allNotes :
          Spend /\ PopupEditNote(u, <<"h">>, TRUE) /\ UNCHANGED <<offSync, viewVars>>
    \/ \E u \in DOMAIN allNotes :
          Spend /\ PopupDeleteNote(u) /\ UNCHANGED <<offSync, viewVars>>
    \/ \E c \in Contexts : StorageSetOk(c) /\ UNCHANGED <<offSync, ops, viewVars>>
    \/ ContentResumeView /\ UNCHANGED <<offSync, ops>>
    \/ PopupResume /\ UNCHANGED <<offSync, ops, viewVars>>
    \/ ContentOnChangedView /\ UNCHANGED <<offSync, ops>>
    \/ PopupOnChanged /\ UNCHANGED <<offSync, ops, viewVars>>
SpecSync == SyncInitAll /\ [][SyncNext]_vars

\* the content script on a scanned page while other contexts change the store
offRefresh == <<normVars, drvVars, logVars, bridgeVars, migVars, failVars, clockVars, editorVars, clearVars, retVars, lateVars, tierVars, navVars, renderVars, dropVars, otherVars, installVars, stampVars>>
RefreshInitAll ==
    RefreshInit /\ NormIdle /\ DrvIdle /\ LogIdle /\ BridgeIdle /\ MigIdle /\ FailIdle /\ ClockIdle /\ EditorIdle /\ ClearIdle /\ RetIdle /\ LateIdle /\ TierIdle /\ NavIdle /\ RenderIdle /\ DropIdle /\ OtherIdle /\ InstallIdle /\ StampIdle
RefreshNext ==
    \/ ContentLoadNotes /\ UNCHANGED <<offRefresh, ops, viewVars, domVars>>
    \/ InitScan /\ UNCHANGED <<offRefresh, ops, noteVars>>
    \/ \E k \in { Anchor(<<"/","a","l">>, <<"@","a","l">>, "header"),
                   Anchor(<<"/","H","o","m","e">>, <<"@","H","o","m","e">>, "header") } :
          HostInsertAnchor(k) /\ UNCHANGED <<offRefresh, ops, noteVars, viewVars>>
    \/ \E tm \in timers : ScanTimer(tm) /\ UNCHANGED <<offRefresh, ops, noteVars>>
    \/ DomTick /\ UNCHANGED <<offRefresh, ops, noteVars, viewVars>>
    \/ \E v \in RefreshStores :
          Spend /\ OtherContextSets(v) /\ UNCHANGED <<offRefresh, viewVars, domVars>>
    \/ Spend /\ OtherContextClears /\ UNCHANGED <<offRefresh, viewVars, domVars>>
    \/ Refresh /\ UNCHANGED <<offRefresh, ops>>
SpecRefresh == RefreshInitAll /\ [][RefreshNext]_vars

\* the content script alone with its controls, on a store that may reject a write
offViewFail == <<normVars, drvVars, domVars, logVars, bridgeVars, migVars, failVars, clockVars, editorVars, clearVars, lateVars, tierVars, navVars, renderVars, dropVars, otherVars, installVars, stampVars>>
ViewFailInitAll ==
    ViewInit /\ RetIdle /\ NormIdle /\ DrvIdle /\ DomIdle /\ LogIdle /\ BridgeIdle /\ MigIdle /\ FailIdle /\ ClockIdle /\ EditorIdle /\ ClearIdle /\ LateIdle /\ TierIdle /\ NavIdle /\ RenderIdle /\ DropIdle /\ OtherIdle /\ InstallIdle /\ StampIdle
ViewFailNext ==
    \/ ContentLoadNotes /\ UNCHANGED <<offViewFail, ops, viewVars, retVars>>
    \/ InjectControl /\ UNCHANGED <<offViewFail, ops, noteVars, retVars>>
    \/ \E t \in ViewTexts, s \in { <<>>, <<4>>, <<5>> } :
          Upsert(<<"A","l","i","c","e">>, t, s) /\ UNCHANGED <<offViewFail, viewVars, retVars>>
    \/ \E i \in 0..1 :
          DeleteSample(<<"A","l","i","c","e">>, i) /\ UNCHANGED <<offViewFail, viewVars, retVars>>
    \/ StorageSetOk("content") /\ UNCHANGED <<offViewFail, ops, viewVars, retVars>>
    \/ StorageSetFail("content") /\ UNCHANGED <<offViewFail, ops, viewVars, retVars>>
    \/ ContentReturns /\ UNCHANGED <<offViewFail, ops>>
    \/ ContentOnChangedView /\ UNCHANGED <<offViewFail, ops, retVars>>
SpecViewFail == ViewFailInitAll /\ [][ViewFailNext]_vars

\* the log bridge with an observer that asks again once a request has timed out
offBridgeLate == <<normVars, noteVars, drvVars, ops, domVars, migVars, viewVars, failVars, clockVars, editorVars, clearVars, retVars, tierVars, navVars, renderVars, dropVars, otherVars, installVars, stampVars>>
BridgeLateInitAll ==
    BridgeInit /\ responder /\ LateIdle /\ NormIdle /\ NotesIdle /\ DrvIdle /\ ops = 0 /\ DomIdle /\ MigIdle /\ ViewIdle /\ FailIdle /\ ClockIdle /\ EditorIdle /\ ClearIdle /\ RetIdle /\ TierIdle /\ NavIdle /\ RenderIdle /\ DropIdle /\ OtherIdle /\ InstallIdle /\ StampIdle
BridgeLateNext ==
    \/ Log /\ UNCHANGED <<bridgeVars, lateVars, offBridgeLate>>
    \/ \E tm \in flushTimers :
          FlushTimer(tm) /\ UNCHANGED <<bridgeVars, lateVars, offBridgeLate>>
    \/ FlushGot /\ UNCHANGED <<bridgeVars, lateVars, offBridgeLate>>
    \/ FlushSetServed /\ UNCHANGED <<bridgeVars, offBridgeLate>>
    \/ RequestNext /\ UNCHANGED offBridgeLate
    \/ \E n \in 1..MaxRequests : Responds(n) /\ UNCHANGED offBridgeLate
    \/ \E tm \in bridgeTimers : BridgeTimeout(tm) /\ UNCHANGED <<lateVars, offBridgeLate>>
    \/ LogElapse /\ UNCHANGED <<lateVars, offBridgeLate>>
SpecBridgeLate == BridgeLateInitAll /\ [][BridgeLateNext]_vars

\* the control's number and colour over every sample list of 1..5 values
offTier == <<normVars, noteVars, drvVars, ops, domVars, logVars, bridgeVars, migVars, viewVars, failVars, clockVars, editorVars, clearVars, retVars, lateVars, navVars, renderVars, dropVars, otherVars, installVars, stampVars>>
TierInitAll ==
    TierInit /\ NormIdle /\ NotesIdle /\ DrvIdle /\ ops = 0 /\ DomIdle /\ LogIdle /\ BridgeIdle /\ MigIdle /\ ViewIdle /\ FailIdle /\ ClockIdle /\ EditorIdle /\ ClearIdle /\ RetIdle /\ LateIdle /\ NavIdle /\ RenderIdle /\ DropIdle /\ OtherIdle /\ InstallIdle /\ StampIdle
TierNext ==
    \/ TierCreate /\ UNCHANGED offTier
    \/ TierCreateEmpty /\ UNCHANGED offTier
    \/ TierRefresh /\ UNCHANGED offTier
SpecTier == TierInitAll /\ [][TierNext]_vars

\* the content script alone: saveNote and deleteScoreAtIndex on two users,
\* by direct calls and by the history list, with writes that may fail
offDelete == <<normVars, drvVars, domVars, logVars, bridgeVars, migVars, failVars, clockVars, editorVars, clearVars, lateVars, tierVars, navVars, renderVars, dropVars, otherVars, installVars, stampVars>>
DeleteInitAll ==
    ViewInit /\ RetIdle /\ NormIdle /\ DrvIdle /\ DomIdle /\ LogIdle /\ BridgeIdle /\ MigIdle /\ FailIdle /\ ClockIdle /\ EditorIdle /\ ClearIdle /\ LateIdle /\ TierIdle /\ NavIdle /\ RenderIdle /\ DropIdle /\ OtherIdle /\ InstallIdle /\ StampIdle
DeleteNext ==
    \/ ContentLoadNotes /\ UNCHANGED <<offDelete, ops, viewVars, retVars>>
    \/ \E u \in ViewUsernames, t \in ViewTexts, s \in { <<3>>, <<5>> } :
          Upsert(u, t, s) /\ UNCHANGED <<offDelete, viewVars, retVars>>
    \/ \E u \in ViewUsernames, i \in {-1, 2} :
          DeleteCall(u, i) /\ UNCHANGED <<offDelete, viewVars>>
    \/ \E u \in ViewUsernames, idx \in 0..2 :
          ClickScoreDelete(u, idx) /\ UNCHANGED <<offDelete, viewVars>>
    \/ StorageSetOk("content") /\ UNCHANGED <<offDelete, ops, viewVars, retVars>>
    \/ StorageSetFail("content") /\ UNCHANGED <<offDelete, ops, viewVars, retVars>>
    \/ ContentReturns /\ UNCHANGED <<offDelete, ops>>
    \/ ContentOnChangedView /\ UNCHANGED <<offDelete, ops, retVars>>
    \/ Tick /\ UNCHANGED <<offDelete, ops, viewVars, retVars>>
SpecDelete == DeleteInitAll /\ [][DeleteNext]_vars

\* the scheduler with the navigation watcher: the host page changes the URL
\* and the document independently
offNav == <<normVars, noteVars, drvVars, ops, logVars, bridgeVars, migVars, viewVars, failVars, clockVars, editorVars, clearVars, retVars, lateVars, tierVars, renderVars, dropVars, otherVars, installVars, stampVars>>
NavInitAll ==
    NavInit /\ NormIdle /\ NotesIdle /\ DrvIdle /\ ops = 0 /\ LogIdle /\ BridgeIdle /\ MigIdle /\ ViewIdle /\ FailIdle /\ ClockIdle /\ EditorIdle /\ ClearIdle /\ RetIdle /\ LateIdle /\ TierIdle /\ RenderIdle /\ DropIdle /\ OtherIdle /\ InstallIdle /\ StampIdle
NavNext ==
    \/ NavInitProcessPage /\ UNCHANGED offNav
    \/ \E u \in Routes : HostPushState(u) /\ UNCHANGED offNav
    \/ HostRemovesNode /\ UNCHANGED offNav
    \/ \E k \in NavAnchorKinds : NavInsertAnchor(k) /\ UNCHANGED offNav
    \/ \E tm \in timers : NavProcessPageTimer(tm) /\ UNCHANGED offNav
    \/ DomTick /\ UNCHANGED <<navVars, offNav>>
SpecNav == NavInitAll /\ [][NavNext]_vars

\* time passes and a timer that is due runs; the host page is free to stop
SpecNavFair ==
    /\ NavInitAll /\ [][NavNext]_vars
    /\ WF_vars(DomTick /\ UNCHANGED <<navVars, offNav>>)
    /\ WF_vars(\E tm \in timers : NavProcessPageTimer(tm) /\ UNCHANGED offNav)

\* saveNote with scores inside and outside 1..5, next to a popup that
\* imports files
offRange == <<normVars, drvVars, domVars, logVars, bridgeVars, migVars, viewVars, failVars, clockVars, editorVars, clearVars, retVars, lateVars, tierVars, navVars, renderVars, dropVars, otherVars, installVars, stampVars>>
RangeInitAll ==
    NotesInit /\ NormIdle /\ DrvIdle /\ DomIdle /\ LogIdle /\ BridgeIdle /\ MigIdle /\ ViewIdle /\ FailIdle /\ ClockIdle /\ EditorIdle /\ ClearIdle /\ RetIdle /\ LateIdle /\ TierIdle /\ NavIdle /\ RenderIdle /\ DropIdle /\ OtherIdle /\ InstallIdle /\ StampIdle
RangeNext ==
    \/ ContentLoadNotes /\ UNCHANGED <<offRange, ops>>
    \/ PopupLoadNotes /\ UNCHANGED <<offRange, ops>>
    \/ \E t \in { <<>>, <<" ","g"," ">> }, s \in ScoreArgs :
          Spend /\ SaveNote(<<"@","a","l">>, t, s) /\ UNCHANGED offRange
    \/ \E f \in ForeignFiles : Spend /\ PopupImportNotes(f) /\ UNCHANGED offRange
    \/ \E c \in Contexts : StorageSetOk(c) /\ UNCHANGED <<offRange, ops>>
    \/ ContentResume /\ UNCHANGED <<offRange, ops>>
    \/ PopupResume /\ UNCHANGED <<offRange, ops>>
    \/ ContentOnChanged /\ UNCHANGED <<offRange, ops>>
    \/ PopupOnChanged /\ UNCHANGED <<offRange, ops>>
    \/ Tick /\ UNCHANGED <<offRange, ops>>
SpecRange == RangeInitAll /\ [][RangeNext]_vars

\* the scanned page with everything that makes the content script insert
\* nodes: scans that decorate, refreshes of the controls, the editor
offQuiesce == <<normVars, drvVars, logVars, bridgeVars, migVars, failVars, clockVars, clearVars, retVars, lateVars, tierVars, navVars, renderVars, dropVars, otherVars, installVars, stampVars>>
QuiesceInitAll ==
    QuiesceInit /\ NormIdle /\ DrvIdle /\ LogIdle /\ BridgeIdle /\ MigIdle /\ FailIdle /\ ClockIdle /\ ClearIdle /\ RetIdle /\ LateIdle /\ TierIdle /\ NavIdle /\ RenderIdle /\ DropIdle /\ OtherIdle /\ InstallIdle /\ StampIdle
QuiesceNext ==
    \/ ContentLoadNotes /\ UNCHANGED <<offQuiesce, ops, viewVars, domVars, editorVars>>
    \/ InitScan /\ UNCHANGED <<offQuiesce, ops, noteVars, editorVars>>
    \/ HostInsertAnchor(Anchor(<<"/","a","l">>, <<"@","a","l">>, "header"))
          /\ UNCHANGED <<offQuiesce, ops, noteVars, viewVars, editorVars>>
    \/ \E tm \in timers : ScanTimer(tm) /\ UNCHANGED <<offQuiesce, ops, noteVars, editorVars>>
    \/ DomTick /\ UNCHANGED <<offQuiesce, ops, noteVars, viewVars, editorVars>>
    \/ \E v \in RefreshStores :
          Spend /\ OtherContextSets(v) /\ UNCHANGED <<offQuiesce, viewVars, domVars, editorVars>>
    \/ Refresh /\ UNCHANGED <<offQuiesce, ops, editorVars>>
    \/ \E i \in 1..MaxButtons : Spend /\ OpenEditorObserved(i) /\ UNCHANGED offQuiesce
    \/ PressEscape /\ UNCHANGED <<offQuiesce, ops, viewVars, domVars>>
SpecQuiesce == QuiesceInitAll /\ [][QuiesceNext]_vars

\* time passes and a due timer runs processPage; the host page, the other
\* contexts and the user are free to stop
SpecQuiesceFair ==
    /\ QuiesceInitAll /\ [][QuiesceNext]_vars
    /\ WF_domVars(DomTick)
    /\ WF_domVars(\E tm \in timers : ProcessPageTimer(tm))

\* a control built against one state of the record and refreshed against
\* another
offRender == <<normVars, noteVars, drvVars, ops, domVars, logVars, bridgeVars, migVars, viewVars, failVars, clockVars, editorVars, clearVars, retVars, lateVars, tierVars, navVars, dropVars, otherVars, installVars, stampVars>>
RenderInitAll ==
    RenderInit /\ NormIdle /\ NotesIdle /\ DrvIdle /\ ops = 0 /\ DomIdle /\ LogIdle /\ BridgeIdle /\ MigIdle /\ ViewIdle /\ FailIdle /\ ClockIdle /\ EditorIdle /\ ClearIdle /\ RetIdle /\ LateIdle /\ TierIdle /\ NavIdle /\ DropIdle /\ OtherIdle /\ InstallIdle /\ StampIdle
RenderNext ==
    \/ RenderCreate /\ UNCHANGED offRender
    \/ RenderRefresh /\ UNCHANGED offRender
SpecRender == RenderInitAll /\ [][RenderNext]_vars

----------------------------------------------------------------------------
(* Claims                                                                  *)

\* what the description asks of normalize: lowercase, and strip one LEADING '@'
StripLeadingMarker(s) ==
    IF Len(s) > 0 /\ s[1] = "@" THEN SubSeq(s, 2, Len(s)) ELSE s

\* C10: normalize is idempotent (normalize(normalize(x)) = normalize(x)) and
\* removes an '@' only when it is the first character of x.
C10_NormalizeIdempotentLeadingOnly ==
    /\ nPc = "twice" => nOut2 = nOut1
    /\ nPc \in {"once", "twice"} => nOut1 = StripLeadingMarker(toLowerCase(nIn))


\* a record of a collection has a non-empty note or a non-empty list of samples
\* (for a record still in the legacy form: or a non-null score)
recordHasContent(r) ==
    \/ r.note # <<>>
    \/ r.fmt = "new" /\ Len(r.scores) > 0
    \/ r.fmt = "legacy" /\ r.score # <<>>

\* C7: in every reachable state, after any sequence of upsert, deleteSample,
\* delete-all, legacy migration on load, popup edit and popup import, every record
\* in the persisted store and in each context's cache has a non-empty note or a
\* non-empty scores list.
C7_RecordExistence ==
    /\ \A k \in DOMAIN notes : recordHasContent(notes[k])
    /\ \A k \in DOMAIN notesCache : recordHasContent(notesCache[k])
    /\ \A k \in DOMAIN allNotes : recordHasContent(allNotes[k])

\* C8: starting from an empty collection, after any sequence of upsert and
\* deleteSample calls every record has at most 5 samples (in the cache, in the
\* store and in every value on its way to the store), and an upsert that appends
\* to a full list evicts the sample at index 0 and keeps the others in order.
C8_SampleCap ==
    /\ \A k \in DOMAIN notesCache : Len(notesCache[k].scores) <= 5
    /\ \A k \in DOMAIN notes : Len(notes[k].scores) <= 5
    /\ \A i \in DOMAIN writes["content"] :
          \A k \in DOMAIN writes["content"][i].val :
              Len(writes["content"][i].val[k].scores) <= 5
    /\ (/\ last.op = "saveNote"
        /\ last.score \in { <<1>>, <<2>>, <<3>>, <<4>>, <<5>> }
        /\ Len(last.pre) = 5)
       => /\ Len(last.post) = 5
          /\ SubSeq(last.post, 1, 4) = SubSeq(last.pre, 2, 5)
          /\ last.post[5].value = last.score[1]

\* an upsert has just appended to a full list, and the list changed
C8_Witness ==
    /\ last.op = "saveNote"
    /\ last.score \in { <<1>>, <<5>> }
    /\ Len(last.pre) = 5
    /\ last.post # last.pre
    /\ last.pre[1] # last.pre[2]

\* C9 as stated: after the six calls with scores 1..6 the stored list is [2,3,4,5,6]
C9_AsStated ==
    SixDone =>
        /\ normalizeUsername(drvUser) \in DOMAIN notes
        /\ values(notes[normalizeUsername(drvUser)].scores) = <<2, 3, 4, 5, 6>>

\* C9 (amended): after the six calls with scores 1..6 the stored list has length 5
\* and values [1,2,3,4,5]: the score 6 of the sixth call is out of range, so that
\* call appends nothing and evicts nothing.
C9_SixUpserts ==
    SixDone =>
        /\ DOMAIN notes = { normalizeUsername(drvUser) }
        /\ Len(notes[normalizeUsername(drvUser)].scores) = 5
        /\ values(notes[normalizeUsername(drvUser)].scores) = <<1, 2, 3, 4, 5>>
        /\ notesCache = notes

\* the six calls have returned and the record is stored
C9_Witness ==
    /\ SixDone
    /\ <<"b","o","b">> \in DOMAIN notes
    /\ Len(notes[<<"b","o","b">>].scores) = 5

\* the handle of a profile link: its path without the leading slash
handleOf(a) == Tail(a.href)

\* a single-segment path of 1..15 characters of [A-Za-z0-9_]
SingleSegment(a) ==
    /\ Len(a.href) >= 2
    /\ a.href[1] = "/"
    /\ Len(handleOf(a)) <= 15
    /\ \A i \in DOMAIN handleOf(a) : handleOf(a)[i] \in WordChars

\* the text is the handle, with or without the @, whatever the case
TextIsHandle(a) ==
    \/ toLowerCase(trim(a.text)) = toLowerCase(handleOf(a))
    \/ toLowerCase(trim(a.text)) = <<"@">> \o toLowerCase(handleOf(a))

\* the text begins with @, or is the handle whatever the case
TextAtOrHandle(a) ==
    \/ toLowerCase(trim(a.text)) = toLowerCase(handleOf(a))
    \/ Len(trim(a.text)) >= 1 /\ Head(trim(a.text)) = "@"

NotExcluded(a) == a.container \notin {"tweetText", "modal", "wrapper"}

NotReserved(a) == toLowerCase(handleOf(a)) \notin skipUsernames

\* what the scans leave on the anchors, for a given notion of qualifying
Decorated(a, qualifying) ==
    IF qualifying
    THEN a.processed /\ a.wrappers = 1 /\ a.controls = 1
    ELSE a.controls = 0

\* the document has been scanned since its last anchor came in
Scanned == dPc = "observing" /\ ~dg.changed

\* C4 as stated: after the scans over an unchanged set of anchors, every
\* anchor with a single-segment path of 1..15 word characters, text matching
\* the handle, outside the excluded containers and not a reserved name has
\* the processed marker, one wrapper and one control, no other anchor has a
\* control, and a second scan over the unchanged document creates none.
C4_AsStated ==
    /\ Scanned =>
          \A i \in DOMAIN doc :
              Decorated(doc[i], SingleSegment(doc[i]) /\ TextIsHandle(doc[i])
                                  /\ NotExcluded(doc[i]) /\ NotReserved(doc[i]))
    /\ dg.rescan => dg.injected = 0

\* C4, amended: the same with "text that begins with @ or is the handle"
\* for "text matching the handle"; and no anchor ever has more than one
\* wrapper or control.
C4_DecorationIdempotent ==
    /\ Scanned =>
          \A i \in DOMAIN doc :
              Decorated(doc[i], SingleSegment(doc[i]) /\ TextAtOrHandle(doc[i])
                                  /\ NotExcluded(doc[i]) /\ NotReserved(doc[i]))
    /\ \A i \in DOMAIN doc : doc[i].wrappers <= 1 /\ doc[i].controls <= 1
    /\ dg.rescan => dg.injected = 0

\* two anchors, one decorated and one left alone, after a second scan over
\* the unchanged document
C4_Witness ==
    /\ Scanned
    /\ dg.rescan
    /\ Len(doc) = 2
    /\ \E i \in DOMAIN doc : doc[i].controls = 1
    /\ \E i \in DOMAIN doc : doc[i].controls = 0 /\ SingleSegment(doc[i])

\* C5: the re-scan is debounced. At most one re-scan timer is live; a timer
\* runs its scan only when a full debounceMs has passed since the last
\* insertion; the insertions of a burst (each less than debounceMs after
\* the one before) get at most one scan, and exactly one once no timer is
\* left: the scan is owed as long as the timer is live.
C5_Debounced ==
    /\ Cardinality(timers) <= 1
    /\ \A tm \in timers : tm.id = processTimeout
    /\ dg.gap >= debounceMs
    /\ dg.burstScans <= 1
    /\ dg.burstN >= 1 => (IF timers = {} THEN dg.burstScans = 1 ELSE dg.burstScans = 0)

\* a burst of MaxBurst insertions has had its one scan
C5_Witness ==
    /\ dg.burstN = MaxBurst
    /\ dg.burstScans = 1
    /\ timers = {}

\* the entries of a list
entriesOf(list) == { list[i] : i \in DOMAIN list }

\* the entries the context enqueued before its xpnGetLogs call
enqueuedBefore == 1..ga.before

\* fewer than XPN_MAX_LOGS entries in all: no flush has to drop any
FewEntries == Len(logStore) + Len(consoleOut) < XPN_MAX_LOGS

\* C1: xpnGetLogs gives its caller read-after-write consistency. With fewer
\* than 1000 entries in all, every entry the context enqueued before the
\* call is in the list the call returns, also when the call is made while
\* an earlier flush awaits its storage read or write.
C1_ReadAfterWrite ==
    (ga.pc = "done" /\ FewEntries) => enqueuedBefore \subseteq entriesOf(ga.result)

\* a promise of getExtensionLogs, once settled, keeps its value
SettledOnce ==
    [][\A k \in DOMAIN promises :
          promises[k].state = "resolved" => promises'[k] = promises[k]]_vars

\* the k-th getExtensionLogs call has its result
settled(k) == k \in DOMAIN promises /\ promises[k].state = "resolved"

\* C2: a bridge request always terminates. Every promise of
\* getExtensionLogs is resolved in the end, also when no responder is
\* registered or the responder never answers; one the timeout resolved
\* gives the empty list, as does every one without a responder; and a
\* promise is resolved once: a response after the timeout changes nothing.
C2_RequestTerminates ==
    /\ \A k \in 1..MaxRequests :
          [](Len(promises) >= k => <>settled(k))
    /\ [](\A k \in DOMAIN promises :
            /\ promises[k].by = "timeout" => getExtensionLogs(k) = <<>>
            /\ (~responder /\ promises[k].state = "resolved") => promises[k].by = "timeout")
    /\ SettledOnce

\* the timeout resolved the first request and the response came after it
C2_Witness ==
    /\ Len(promises) >= 1
    /\ promises[1].by = "timeout"
    /\ getExtensionLogs(1) = <<>>
    /\ Len(responses) >= 1
    /\ responses[1].log # <<>>

\* the responder is between a request event and its response
responding == ga.via = "bridge" /\ ga.pc \in {"flushing", "reading"}

written == Head(logOps).val

\* C6: the persisted log holds at most XPN_MAX_LOGS entries, oldest first,
\* and what a flush writes is the end of the existing list followed by its
\* batch: all of it up to XPN_MAX_LOGS entries, else the newest
\* XPN_MAX_LOGS in their order, the front dropped.
C6_LogCap ==
    /\ Len(logStore) <= XPN_MAX_LOGS
    /\ \A i \in 1..(Len(logStore) - 1) : logStore[i] < logStore[i + 1]
    /\ answers("set", "flush") =>
          /\ Len(written) = (IF Len(fl.combined) > XPN_MAX_LOGS
                              THEN XPN_MAX_LOGS ELSE Len(fl.combined))
          /\ \A i \in 1..Len(written) :
                written[i] = fl.combined[Len(fl.combined) - Len(written) + i]

\* a full store whose oldest entries a flush has dropped
C6_Witness ==
    /\ Len(logStore) = XPN_MAX_LOGS
    /\ logStore[1] > 1 - XPN_MAX_LOGS
    /\ logStore[XPN_MAX_LOGS] >= 2

\* C11: legacy migration is correct and idempotent. A record with a score
\* v that is not null and updatedAt T migrates to the one sample
\* [value v, timestamp T] and loses its score field; one with score null
\* migrates to no samples; a record that has a sample list is returned as
\* it is; and migrating the result again, at any later time, changes
\* nothing.
C11_MigrationIdempotent ==
    /\ mPc \in {"once", "twice"} =>
          /\ (mIn.fmt = "legacy" /\ mIn.score # <<>> /\ mIn.updatedAt # 0) =>
                /\ mOut1.scores = << [value |-> mIn.score[1], timestamp |-> mIn.updatedAt] >>
                /\ mOut1.fmt = "new"
                /\ mOut1.score = <<>>
          /\ (mIn.fmt = "legacy" /\ mIn.score = <<>>) =>
                mOut1.scores = <<>> /\ mOut1.fmt = "new"
          /\ mIn.fmt \in {"new", "both"} => mOut1 = mIn
          /\ mOut1.note = mIn.note
          /\ mOut1.createdAt = mIn.createdAt
          /\ mOut1.updatedAt = mIn.updatedAt
    /\ mPc = "twice" => mOut2 = mOut1

\* a legacy record with the score 4 has been migrated twice, the second
\* time later than the first
C11_Witness ==
    /\ mPc = "twice"
    /\ mIn.fmt = "legacy"
    /\ mIn.score = <<4>>
    /\ mIn.updatedAt = 1
    /\ mAt = 3
    /\ mOut2.scores = << [value |-> 4, timestamp |-> 1] >>

\* the sample values stored in the cache for a user, none when the user
\* has no record
storedValues(username) ==
    values(scoresOf(notesCache, normalizeUsername(username)))

RECURSIVE total(_)
total(vs) == IF vs = <<>> THEN 0 ELSE Head(vs) + total(Tail(vs))

\* a, in tenths, is the mean of vs rounded half-up to one decimal place
IsMeanHalfUp(a, vs) ==
    /\ (2 * a - 1) * Len(vs) <= 20 * total(vs)
    /\ 20 * total(vs) < (2 * a + 1) * Len(vs)

\* C12: the average of a user is the arithmetic mean of the stored sample
\* values rounded half-up to one decimal place, and it is null exactly when
\* the user has no record or no samples; after the scores 4, 5, 3 on a
\* fresh user it is 4.0, and after 4 then 5 it is 4.5.
C12_Average ==
    \A u \in ViewUsernames :
        /\ getAverageScore(notesCache, u) = <<>> <=> storedValues(u) = <<>>
        /\ storedValues(u) # <<>> =>
              IsMeanHalfUp(getAverageScore(notesCache, u)[1], storedValues(u))
        /\ storedValues(u) = <<4, 5, 3>> => getAverageScore(notesCache, u) = <<40>>
        /\ storedValues(u) = <<4, 5>> => getAverageScore(notesCache, u) = <<45>>

\* the three upserts 4, 5, 3 have returned: one user has the average 4.0,
\* the other has no record and no average
C12_Witness ==
    /\ ops = 3
    /\ writes["content"] = <<>>
    /\ storedValues(<<"A","l","i","c","e">>) = <<4, 5, 3>>
    /\ getAverageScore(notesCache, <<"A","l","i","c","e">>) = <<40>>
    /\ getAverageScore(notesCache, <<"b","o">>) = <<>>

Alice == <<"A","l","i","c","e">>

\* the collection {alice: {note: "great contact", scores: [{value: 5,
\* timestamp: T}], createdAt: T, updatedAt: T}}
EndToEndExpected(T) ==
    [k \in { <<"a","l","i","c","e">> } |->
        NewRecord(<<"g","r","e","a","t"," ","c","o","n","t","a","c","t">>,
                  << [value |-> 5, timestamp |-> T] >>, T, T)]

\* saveNote("Alice", " great contact ", 5), called first on the empty
\* collection, returns
EndToEndReturns ==
    /\ ops = 1
    /\ last.op = "saveNote"
    /\ last.text = GreatContact
    /\ last.score = <<5>>
    /\ ~last.had
    /\ Len(writes["content"]) = 1
    /\ writes["content"][1].st = "ok"
    /\ writes'["content"] = <<>>

\* C13: on an empty collection, upsert("Alice", " great contact ", 5) at
\* time T leaves exactly one record, keyed "alice", equal to {note: "great
\* contact", scores: [{value: 5, timestamp: T}], createdAt: T, updatedAt:
\* T}, in the cache and in the store; the average of alice is 5.0 and every
\* control of that user shows tier 5.
C13_EndToEndUpsert ==
    [][EndToEndReturns =>
          /\ notesCache' = EndToEndExpected(last.at)
          /\ notes' = EndToEndExpected(last.at)
          /\ getAverageScore(notesCache', Alice) = <<50>>
          /\ \A i \in DOMAIN buttons' :
                normalizeUsername(buttons'[i].username) = normalizeUsername(Alice)
                  => buttons'[i].tier = <<5>> /\ buttons'[i].score = <<50>>]_vars

\* the call made at T = 1 has returned, later, on a page with a control of
\* the user and a control of another user
C13_Witness ==
    /\ ops = 1
    /\ last = NoCall
    /\ writes["content"] = <<>>
    /\ now = 2
    /\ notes = EndToEndExpected(1)
    /\ notesCache = EndToEndExpected(1)
    /\ Len(buttons) = 2
    /\ buttons[1].username = Alice
    /\ buttons[1].tier = <<5>>
    /\ buttons[2].tier = <<>>

\* the records of the users other than key are the same in a and b
sameOthers(a, b, key) ==
    /\ DOMAIN a \ {key} = DOMAIN b \ {key}
    /\ \A k \in DOMAIN a \ {key} : a[k] = b[k]

\* c is the call saveNote(user, blank text, null) for a user without a record
IsNoOpUpsert(c) ==
    /\ c.op = "saveNote"
    /\ trim(c.text) = <<>>
    /\ c.score = <<>>
    /\ ~c.had

\* the step that calls such a saveNote
NoOpUpsertCalled ==
    /\ Len(writes'["content"]) = Len(writes["content"]) + 1
    /\ IsNoOpUpsert(last')

\* the step at which the store commits the write of such a saveNote
NoOpUpsertCommitted ==
    /\ IsNoOpUpsert(last)
    /\ hasSent("content")
    /\ writes'["content"][firstSent("content")].st = "ok"

\* C14 as stated: an upsert with blank text and no score for a user without
\* a record leaves no record of that user in the cache or in the store, and
\* leaves every other user's record unchanged in both.
C14_AsStated ==
    [][/\ NoOpUpsertCalled =>
             /\ last'.key \notin DOMAIN notesCache'
             /\ sameOthers(notesCache, notesCache', last'.key)
       /\ NoOpUpsertCommitted =>
             /\ last.key \notin DOMAIN notes'
             /\ sameOthers(notes, notes', last.key)]_vars

\* C14, amended: such an upsert leaves the cache as it was, with no record
\* of that user; when its write commits, the store holds no record of that
\* user and every other user's record as the caller's cache has it.
C14_NoRecordCreated ==
    [][/\ NoOpUpsertCalled =>
             /\ last'.key \notin DOMAIN notesCache'
             /\ notesCache' = notesCache
       /\ NoOpUpsertCommitted =>
             /\ last.key \notin DOMAIN notes'
             /\ sameOthers(writes["content"][firstSent("content")].val, notes', last.key)]_vars

\* the write of such an upsert has been committed while the cache held
\* another user's record
C14_Witness ==
    /\ IsNoOpUpsert(last)
    /\ last.text = <<" ">>
    /\ Len(writes["content"]) = 1
    /\ writes["content"][1].st = "ok"
    /\ <<"b","o">> \in DOMAIN notes
    /\ last.key \notin DOMAIN notes

\* c is a call of deleteScoreAtIndex that took the only sample of a record
IsLastSampleDelete(c) == c.op = "deleteScore" /\ Len(c.pre) = 1

\* the step that calls such a deleteScoreAtIndex
LastSampleDeleteCalled ==
    /\ Len(writes'["content"]) = Len(writes["content"]) + 1
    /\ IsLastSampleDelete(last')

\* the step at which the store commits the write of such a call
LastSampleDeleteCommitted ==
    /\ IsLastSampleDelete(last)
    /\ hasSent("content")
    /\ writes'["content"][firstSent("content")].st = "ok"

\* the record of key is absent from coll if the note was empty, and
\* otherwise present with that note and no samples
DroppedOrEmptied(coll, key, note) ==
    IF note = <<>>
    THEN key \notin DOMAIN coll
    ELSE /\ key \in DOMAIN coll
         /\ coll[key].note = note
         /\ coll[key].scores = <<>>

\* C15: deleting the only remaining sample of a record whose note is empty
\* removes the record from the cache and, when the write commits, from the
\* store; if the note is not empty the record is kept, in both, with an
\* empty sample list.
C15_LastSampleDeleted ==
    [][/\ LastSampleDeleteCalled =>
             /\ DroppedOrEmptied(notesCache', last'.key, notesCache[last'.key].note)
             /\ writes'["content"][Len(writes'["content"])].val = notesCache'
       /\ LastSampleDeleteCommitted =>
             /\ last.key \in DOMAIN writes["content"][firstSent("content")].val
                   <=> last.key \in DOMAIN notes'
             /\ last.key \in DOMAIN notes' =>
                   notes'[last.key] = writes["content"][firstSent("content")].val[last.key]]_vars

\* the only sample of a record without a note has been deleted and the
\* write is committed: the record is gone from the cache and the store
C15_Witness ==
    /\ IsLastSampleDelete(last)
    /\ Len(writes["content"]) = 1
    /\ writes["content"][1].st = "ok"
    /\ last.key \notin DOMAIN notesCache
    /\ last.key \notin DOMAIN notes

\* the only sample of a record with a note has been deleted and the write
\* is committed: the record is kept without samples
C15_WitnessKept ==
    /\ IsLastSampleDelete(last)
    /\ Len(writes["content"]) = 1
    /\ writes["content"][1].st = "ok"
    /\ last.key \in DOMAIN notes
    /\ notes[last.key].note = <<"g">>
    /\ notes[last.key].scores = <<>>

\* the entries of xpnLog calls that the pipeline holds: in the queue, in a
\* flush under way, in a storage.set not yet answered, in the store
heldEntries ==
    { e \in Range(logQueue) \cup (IF isFlushing THEN Range(fl.toFlush) ELSE {})
             \cup Range(logStore)
             \cup UNION { Range(logOps[i].val) : i \in DOMAIN logOps } : e > 0 }

\* a step that puts an entry into the queue
Enqueues == Len(logQueue') = Len(logQueue) + 1

\* C16: every xpnLog call writes to the console in the step that enqueues
\* its entry, so an entry is on the console before it is in the queue and
\* before any storage call carries it, whether storage calls succeed or
\* fail; and a rejected storage call never lets an exception out of
\* xpnLog, flushLogs or xpnGetLogs.
C16_ConsoleFirst ==
    /\ [](heldEntries \subseteq Range(consoleOut))
    /\ [](uncaught = {})
    /\ [][Enqueues =>
             /\ consoleOut' = Append(consoleOut, logQueue'[Len(logQueue')])
             /\ logOps' = logOps]_vars

\* three entries are on the console although every flush failed and a read
\* failed: the store holds nothing new and the queue is empty
C16_Witness ==
    /\ consoleOut = <<1, 2, 3>>
    /\ failed = {"flushLogs", "xpnGetLogs"}
    /\ heldEntries = {}
    /\ ~isFlushing
    /\ ga.pc = "done"
    /\ ga.result = <<>>

\* a step in which a timer runs flushLogs and a flush starts
TimerStartsFlush ==
    /\ ~isFlushing
    /\ isFlushing'
    /\ ga' = ga

\* C17: every xpnLog call cancels the pending flush timer and starts a
\* fresh one, so after the call the only live timer has the full delay to
\* run, and a flush started by the timer starts no less than flushDelayMs
\* after the latest xpnLog call.
C17_FlushTimerRestarted ==
    [][/\ Enqueues => \A tm \in flushTimers' : tm.left = flushDelayMs
       /\ TimerStartsFlush => sinceLog >= flushDelayMs]_vars

\* the step in which the handler h starts: it runs up to its await
HandlerStarts(h) ==
    /\ Len(handlers') = Len(handlers) + 1
    /\ handlers'[Len(handlers')] = h

\* the step in which the handler h goes on after its await and returns
HandlerReturns(h) ==
    /\ handlers # <<>>
    /\ Head(handlers) = h
    /\ handlers' = Tail(handlers)

\* the step in which the store commits the set call the handler h awaits
HandlerCommits(h) ==
    /\ hasSent("content")
    /\ firstSent("content") \in DOMAIN handlers
    /\ handlers[firstSent("content")] = h
    /\ Len(writes'["content"]) = Len(writes["content"])
    /\ writes'["content"][firstSent("content")].st = "ok"

\* the user whose record the open editor is about
target == normalizeUsername(modal.username)

\* the note of a user, empty when the user has no record
noteOf(coll, key) == IF key \in DOMAIN coll THEN coll[key].note ELSE <<>>

\* C18: the numeric accelerator is atomic. A key 1..5 pressed while the
\* editor is open and the focus is not in the textarea appends exactly one
\* sample with that value to the record of the editor's user; from that
\* step until the handler has closed the editor no other handler of the
\* editor starts; and the handler leaves the editor closed.
C18_AcceleratorAtomic ==
    [][/\ HandlerStarts("quickScore") =>
             /\ Len(scoresOf(notesCache', target)) > 0
             /\ scoresOf(notesCache', target) =
                   sliceLast(scoresOf(notesCache, target)
                               \o << scoresOf(notesCache', target)[Len(scoresOf(notesCache', target))] >>,
                             MaxScores)
       /\ "quickScore" \in Range(handlers) => Len(handlers') <= Len(handlers)
       /\ HandlerReturns("quickScore") => ~modal'.open]_vars

\* C20: a click on save persists the text only. In the cache the note of
\* the editor's user becomes the trimmed text of the textarea and the
\* samples stay as they are; the set call carries that cache and the store
\* holds it when the call commits; and the handler leaves the editor
\* closed.
C20_SavePersistsTextOnly ==
    [][/\ HandlerStarts("saveClick") =>
             /\ noteOf(notesCache', target) = trim(modal.textarea)
             /\ scoresOf(notesCache', target) = scoresOf(notesCache, target)
             /\ writes'["content"][Len(writes'["content"])].val = notesCache'
       /\ HandlerCommits("saveClick") =>
             notes' = writes["content"][firstSent("content")].val
       /\ HandlerReturns("saveClick") => ~modal'.open]_vars

\* the text " g " was typed for a user without a record and save was
\* clicked: the handler has returned, the store holds the note "g" without
\* samples, and the editor is closed
C20_Witness ==
    /\ ops = 1
    /\ handlers = <<>>
    /\ writes["content"] = <<>>
    /\ modal.exists
    /\ ~modal.open
    /\ modal.textarea = <<" ","g"," ">>
    /\ <<"a","l">> \in DOMAIN notes
    /\ notes[<<"a","l">>].note = <<"g">>
    /\ notes[<<"a","l">>].scores = <<>>

\* the step of an Alt+N keydown
ShortcutPressed == ops' = ops + 1

\* the anchors a discovery pass qualifies: found, and not a reserved name
qualifying(d) == { i \in unprocessed(d) : NotReserved(d[i]) }

\* C19: Alt+N opens the editor for the user of the first control or, when
\* the page has no control, for the first qualifying user of a fresh
\* discovery pass; it changes nothing while a text field has the focus or
\* the editor is open; and it never opens the editor for a reserved name.
C19_Shortcut ==
    [][ShortcutPressed =>
          /\ (focus \in TextFields \/ modal.open) => modal' = modal
          /\ (focus \notin TextFields /\ ~modal.open /\ withControl(doc) # {}) =>
                /\ modal'.open
                /\ modal'.username = Tail(doc[firstOf(withControl(doc))].href)
          /\ (focus \notin TextFields /\ ~modal.open /\ withControl(doc) = {}
                 /\ qualifying(doc) # {}) =>
                /\ modal'.open
                /\ modal'.username = Tail(doc[firstOf(qualifying(doc))].href)
          /\ (modal'.open /\ ~modal.open) =>
                toLowerCase(modal'.username) \notin skipUsernames]_vars

\* the storage calls of flushLogs not yet answered
flushOps(ops_) == { i \in DOMAIN ops_ : ops_[i].by = "flush" }

\* the step on which a timer runs flushLogs
TimerRunsFlush ==
    /\ \E tm \in flushTimers : tm.left = 0 /\ flushTimers' = flushTimers \ {tm}
    /\ cl' = cl
    /\ ga' = ga

\* the step on which xpnGetLogs is called
GetLogsCalled == ga.pc \in {"idle", "done"} /\ ga'.pc \in {"flushing", "reading"}

\* C21: at most one flush of the context is between its storage read and
\* the completion of its storage write; a flushLogs run by the timer or by
\* xpnGetLogs while a flush is in progress makes no storage call of its own
\* and leaves the queue as it was.
C21_SingleFlight ==
    /\ [](Cardinality(flushOps(logOps)) <= 1)
    /\ []((flushOps(logOps) # {}) <=> isFlushing)
    /\ [][(isFlushing /\ (TimerRunsFlush \/ GetLogsCalled)) =>
            /\ logQueue' = logQueue
            /\ fl' = fl
            /\ Cardinality(flushOps(logOps')) = Cardinality(flushOps(logOps))]_vars

\* a timer has run flushLogs while a flush was in progress and the queue
\* held entries
C21_Witness ==
    /\ isFlushing
    /\ logQueue # <<>>
    /\ flushTimeout = 0
    /\ ga = NoGetLogs
    /\ cl = NoClear

\* C22: with the store answering every call and no xpnClearLogs, every
\* entry xpnLog puts in the queue is in the stored log at some later time,
\* whether it was enqueued with no flush in progress, during a flush, or
\* had its timer run during a flush.
C22_NoEntryStranded ==
    \A e \in 1..MaxLogs : (e \in Range(logQueue)) ~> (e \in Range(logStore))

\* an entry waits in the queue during a flush, its timer having run
C22_Witness ==
    /\ isFlushing
    /\ logQueue # <<>>
    /\ flushTimeout = 0
    /\ flushTimers = {}
    /\ ga = NoGetLogs

\* C23: once xpnClearLogs has returned, and with no xpnLog call since it
\* was called, the stored log is absent, no flush timer is set and the
\* queue is empty, whatever the flush of the context was doing when
\* xpnClearLogs was called.
C23_ClearEffective ==
    (cl.pc = "done" /\ Len(consoleOut) = cl.since) =>
        /\ logStore = <<>>
        /\ flushTimers = {}
        /\ flushTimeout = 0
        /\ logQueue = <<>>

\* the step at which the store commits the oldest set call of context c
Commits(c) ==
    /\ hasSent(c)
    /\ Len(writes'[c]) = Len(writes[c])
    /\ writes'[c][firstSent(c)].st = "ok"

\* the step that calls saveNote or deleteScoreAtIndex and sends its write
ContentCalls == Len(writes'["content"]) = Len(writes["content"]) + 1

\* C24: every committed write replaces the stored collection by the whole
\* collection its writer held when it made the call, and the content
\* script's write carries every other user's record as its cache has it,
\* whatever the store holds; so a change another context committed in
\* between is lost (the state C24_Witness).
C24_WholeCollectionWritten ==
    [][/\ \A c \in Contexts : Commits(c) => notes' = writes[c][firstSent(c)].val
       /\ (ContentCalls /\ cPc = "ready") =>
             /\ writes'["content"][Len(writes'["content"])].val = notesCache'
             /\ sameOthers(notesCache, notesCache', last'.key)]_vars

\* the content script's write of a sample for al and the popup's write of
\* a note for bo are both committed, and the store lacks the sample
C24_Witness ==
    /\ Len(writes["content"]) = 1 /\ writes["content"][1].st = "ok"
    /\ Len(writes["popup"]) = 1 /\ writes["popup"][1].st = "ok"
    /\ writes["popup"][1].op = "editNote"
    /\ last.op = "saveNote" /\ last.score = <<5>> /\ last.key = <<"a","l">>
    /\ last.post # last.pre
    /\ <<"a","l">> \in DOMAIN notes /\ notes[<<"a","l">>].scores = last.pre
    /\ <<"b","o">> \in DOMAIN notes /\ notes[<<"b","o">>].note = <<"h">>
    /\ notesCache[<<"a","l">>].scores = last.post

\* no context is writing and every notification has been delivered
Quiescent ==
    /\ cPc = "ready"
    /\ \A c \in Contexts : writes[c] = <<>> /\ inbox[c] = <<>>

\* C25: when every context has stopped writing and every notification has
\* been delivered, the content script's cache is the stored collection and
\* every control shows what that collection holds for its user.
C25_CacheConsistent ==
    Quiescent =>
        /\ notesCache = notes
        /\ buttons = updateAllIndicators(notes, buttons)

\* the step on which the storage.onChanged listener of init runs
ListenerRuns == Len(inbox'["content"]) = Len(inbox["content"]) - 1

\* C26: a notification of a change of the notes key replaces the cache by
\* the new value (the empty collection when the key was removed) and
\* re-renders every control from it; the controls, wrappers and processed
\* marks of the page stay as they were and no scan is run or scheduled;
\* refreshing once more from the same snapshot changes nothing.
C26_RefreshWithoutDiscovery ==
    [][ListenerRuns =>
          /\ notesCache' = (IF Head(inbox["content"]).removed
                            THEN EmptyColl ELSE Head(inbox["content"]).val)
          /\ buttons' = updateAllIndicators(notesCache', buttons)
          /\ updateAllIndicators(notesCache', buttons') = buttons'
          /\ doc' = doc
          /\ timers' = timers
          /\ processTimeout' = processTimeout]_vars

\* the step at which the store rejects the write of the call under way
WriteFails ==
    /\ hasSent("content")
    /\ Len(writes'["content"]) = Len(writes["content"])
    /\ writes'["content"][firstSent("content")].st = "failed"

\* the step at which a saveNote or deleteScoreAtIndex whose write was
\* rejected returns
FailedCallReturns ==
    /\ Len(writes["content"]) = 1
    /\ writes["content"][1].st = "failed"
    /\ writes["content"][1].op \in {"saveNote", "deleteScoreAtIndex"}
    /\ writes'["content"] = <<>>

\* C27: when the store rejects the write of saveNote or deleteScoreAtIndex,
\* the call returns false; the stored collection is as it was; the cache
\* holds the collection the call tried to write; and the call re-renders no
\* control.
C27_FailureContained ==
    [][/\ WriteFails => (notes' = notes /\ notesCache' = notesCache /\ buttons' = buttons)
       /\ FailedCallReturns =>
             /\ ret' = "false"
             /\ notes' = notes
             /\ notesCache' = writes["content"][1].val
             /\ buttons' = buttons]_vars

\* a call has returned false, the cache holds a record the store lacks,
\* and the control of the user shows no sample
C27_Witness ==
    /\ ret = "false"
    /\ writes["content"] = <<>>
    /\ <<"a","l","i","c","e">> \in DOMAIN notesCache
    /\ notesCache[<<"a","l","i","c","e">>].scores # <<>>
    /\ notes = EmptyColl
    /\ Len(buttons) >= 1
    /\ buttons[1].score = <<>>

\* C28: with the observer asking one request at a time, a request the
\* response event resolved holds the log the responder read for that very
\* request: that request has been answered, and the promise's text is the
\* text of its answer.
C28_SequentialMatching ==
    \A k \in DOMAIN promises :
        promises[k].by = "response" =>
            \E r \in DOMAIN responses :
                /\ responses[r].req = k
                /\ promises[k].value = responses[r].detail

\* C28, amended: a request made when the responder had dispatched the
\* response of every earlier request, and which the response event
\* resolved, holds the log the responder read for that very request.
C28_MatchingWhenAnswered ==
    \A k \in DOMAIN promises :
        (promises[k].by = "response" /\ served[k].alone) =>
            /\ served[k].pc = "done"
            /\ getExtensionLogs(k) = served[k].snap
            /\ \E r \in DOMAIN responses :
                  /\ responses[r].req = k
                  /\ promises[k].value = responses[r].detail

\* the first request timed out and its response came late; the second,
\* made after that response, is resolved by its own response, which
\* carries a log the first did not
C28_Witness ==
    /\ Len(promises) = 2
    /\ promises[1].by = "timeout"
    /\ promises[2].by = "response"
    /\ served[2].alone
    /\ served[2].snap # served[1].snap
    /\ getExtensionLogs(2) = served[2].snap

\* the exact arithmetic mean of the list rounded half-up: floor(mean + 1/2)
meanHalfUp(list) == (2 * total(list) + Len(list)) \div (2 * Len(list))

\* C29: for every list of 1..5 samples with values in 1..5, the tier of the
\* rendered control (the one-decimal average rounded half-up and clamped)
\* is the exact mean rounded half-up and lies in 1..5, and the number shown
\* has a decimal place exactly when the exact mean is not an integer.
C29_TierIsRoundedMean ==
    tPc \in {"created", "refreshed"} =>
        /\ tButton[1].tier = << meanHalfUp(tList) >>
        /\ tButton[1].tier[1] \in 1..5
        /\ ("." \in Range(tButton[1].display)) <=> (total(tList) % Len(tList) # 0)

\* a refreshed control whose samples have the mean 4.25: it shows 4.3 in
\* the colour of tier 4; and a built one for the mean 2.5, tier 3
C29_Witness ==
    \/ /\ tPc = "refreshed"
       /\ tList = <<4, 4, 4, 5>>
       /\ tButton[1].display = <<"4", ".", "3">>
       /\ tButton[1].tier = <<4>>
    \/ /\ tPc = "created"
       /\ tList = <<2, 3>>
       /\ tButton[1].display = <<"2", ".", "5">>
       /\ tButton[1].tier = <<3>>

\* the label the state of a user's record asks for: the invitation to add
\* when there is no record, the view/edit text when there is a note and no
\* sample, the average with the number of samples when there are samples
stateLabel(cache, username) ==
    LET n == normalizeUsername(username)
    IN  IF n \notin DOMAIN cache
        THEN AddLabel(username)
        ELSE IF sampleList(cache[n]) = <<>>
        THEN ViewLabel(username)
        ELSE AvgLabel(displayScore(getAverageScore(cache, username)[1]),
                      Len(sampleList(cache[n])))

\* C30: every control a step rendered (it is new on the page) or refreshed
\* (the step changed it) has, after the step, the aria-label the state of
\* its user's record asks for.
C30_AccessibleLabelCurrent ==
    [][\A i \in DOMAIN buttons' :
          (i \notin DOMAIN buttons \/ buttons'[i] # buttons[i]) =>
              buttons'[i].ariaLabel = stateLabel(notesCache', buttons'[i].username)]_vars

\* the same of the title attribute, which the code does bring up to date
TitleCurrent ==
    [][\A i \in DOMAIN buttons' :
          (i \notin DOMAIN buttons \/ buttons'[i] # buttons[i]) =>
              buttons'[i].title = stateLabel(notesCache', buttons'[i].username)]_vars

\* the list s without its element at the 0-based position i
withoutAt(s, i) == [j \in 1..(Len(s) - 1) |-> IF j <= i THEN s[j] ELSE s[j + 1]]

\* the step is a call of deleteScoreAtIndex that passed the guard
DeleteAccepted == ops' = ops + 1 /\ last'.op = "deleteScore"

\* the step is a call of deleteScoreAtIndex that the guard rejected
DeleteRejected == ops' = ops + 1 /\ last'.op = "deleteScoreRejected"

\* the step commits the write of a deleteScoreAtIndex call to the store
DeleteCommitted ==
    /\ hasSent("content")
    /\ writes["content"][firstSent("content")].op = "deleteScoreAtIndex"
    /\ Len(writes'["content"]) = Len(writes["content"])
    /\ writes'["content"][firstSent("content")].st = "ok"

\* C31: deleteSample(username, index) removes exactly the sample at that
\* position of the stored order, keeps the other samples of the record in
\* their order, leaves every other user's record unchanged and updates
\* updatedAt (of the record, when it is kept); the store holds the same once
\* the call's write is committed; when the record is absent or the index is
\* outside the sample list the call returns false and changes neither the
\* cache nor the store.
C31_DeleteSampleFrame ==
    [][/\ DeleteAccepted =>
            /\ last'.score[1] \in 0..(Len(scoresOf(notesCache, last'.key)) - 1)
            /\ scoresOf(notesCache', last'.key)
                 = withoutAt(scoresOf(notesCache, last'.key), last'.score[1])
            /\ DOMAIN notesCache' \subseteq DOMAIN notesCache
            /\ \A k \in DOMAIN notesCache \ {last'.key} :
                  k \in DOMAIN notesCache' /\ notesCache'[k] = notesCache[k]
            /\ last'.key \in DOMAIN notesCache' =>
                  /\ notesCache'[last'.key].updatedAt = now
                  /\ notesCache'[last'.key].note = notesCache[last'.key].note
                  /\ notesCache'[last'.key].createdAt = notesCache[last'.key].createdAt
            /\ last'.key \notin DOMAIN notesCache' =>
                  /\ notesCache[last'.key].note = <<>>
                  /\ Len(scoresOf(notesCache, last'.key)) = 1
            /\ notes' = notes
       /\ DeleteCommitted => notes' = notesCache
       /\ DeleteRejected =>
            /\ \/ last'.key \notin DOMAIN notesCache
               \/ last'.score[1] \notin 0..(Len(scoresOf(notesCache, last'.key)) - 1)
            /\ ret' = "false"
            /\ notesCache' = notesCache
            /\ notes' = notes
            /\ writes' = writes]_vars

\* alice's only sample, written at time 1 with a note, was deleted at time
\* 2 by a call whose write is committed (only a delete leaves a record with
\* a note and no sample here), and a later call with an index outside the
\* list has returned false
C31_Witness ==
    /\ ops = 3
    /\ ret = "false"
    /\ last.op = "deleteScoreRejected"
    /\ notes = notesCache
    /\ <<"a","l","i","c","e">> \in DOMAIN notes
    /\ notes[<<"a","l","i","c","e">>].scores = <<>>
    /\ notes[<<"a","l","i","c","e">>].note # <<>>
    /\ notes[<<"a","l","i","c","e">>].createdAt = 1
    /\ notes[<<"a","l","i","c","e">>].updatedAt = 2

\* C32: every client-side navigation is followed by a re-scan: when the URL
\* has changed, a processPage scan eventually runs, whether or not the host
\* page mutates the document at or after the change.
C32_NavigationRescanned == navPending ~> ~navPending

\* every sample of every record of the collection has a value in 1..5
samplesInRange(coll) ==
    \A k \in DOMAIN coll :
        \A i \in DOMAIN coll[k].scores : coll[k].scores[i].value \in 1..5

\* the step is a saveNote call whose score is given and outside 1..5
OutOfRangeUpsert ==
    /\ last' # last
    /\ last'.op = "saveNote"
    /\ last'.score # <<>>
    /\ last'.score[1] \notin 1..5

\* what an upsert with a score outside 1..5 does: no sample is appended and
\* none evicted, the note text and updatedAt are set
UpsertOutOfRange ==
    [][OutOfRangeUpsert =>
          /\ scoresOf(notesCache', last'.key) = scoresOf(notesCache, last'.key)
          /\ last'.key \in DOMAIN notesCache' =>
                /\ notesCache'[last'.key].note = trim(last'.text)
                /\ notesCache'[last'.key].updatedAt = now
          /\ last'.key \notin DOMAIN notesCache' =>
                trim(last'.text) = <<>> /\ scoresOf(notesCache, last'.key) = <<>>]_vars

\* C33: in every reachable state every stored sample value is an integer in
\* 1..5, in the store and in the cache; an upsert whose score is outside
\* 1..5 appends no sample and evicts none, and still sets the note text and
\* updatedAt.
C33_SamplesInRange ==
    /\ [](samplesInRange(notes) /\ samplesInRange(notesCache))
    /\ UpsertOutOfRange

\* the step is a processPage scan run by a timer that decorated nothing
ScanDecoratesNothing ==
    /\ dg'.burstScans = dg.burstScans + 1
    /\ doc' = doc

\* the step is a processPage scan run by a timer that decorated an anchor
\* (the scan of init runs before the observer is set up)
ScanDecorates ==
    /\ dPc = "observing"
    /\ doc' # doc
    /\ \E i \in DOMAIN doc : ~doc[i].processed /\ doc'[i].processed

\* C34: the scan/mutation feedback loop quiesces. A scan that decorates
\* re-arms the debounced scan, a scan that decorates nothing removes its
\* timer and arms none, and whatever the host page, the other contexts and
\* the user did, the scheduler ends in states with no scan timer pending.
C34_FeedbackLoopQuiesces ==
    /\ <>[](timers = {})
    /\ [][/\ ScanDecoratesNothing =>
               /\ timers' \subseteq timers
               /\ timers' # timers
               /\ buttons' = buttons
          /\ ScanDecorates =>
               \E tm \in timers' : tm.left = debounceMs /\ tm.id = processTimeout']_vars

\* a scan decorated an anchor, the editor was opened from its control, the
\* scan after that decorated nothing, and no timer is pending
C34_Witness ==
    /\ timers = {}
    /\ Len(buttons) >= 1
    /\ \E i \in DOMAIN doc : doc[i].processed
    /\ modal.exists
    /\ dg.injected = 0
    /\ dg.burstScans >= 1
    /\ ops = MaxOps

\* what the page shows of a control: its classes (xpn-has-score and
\* xpn-score-N from the tier, xpn-has-note from the indicator), its title
\* and its content
shown(b) == [tier |-> b.tier, indicator |-> b.indicator, title |-> b.title,
             display |-> b.display]

\* C35: rendering is a function of the snapshot only: for every state of
\* the record and every state the control was built in, the control
\* updateAllIndicators refreshed has the classes, the title and the content
\* of a control createNoteButton builds against the same cache.
C35_RefreshEqualsCreate ==
    rPc = "refreshed" =>
        shown(rButton[1]) = shown(createNoteButton(rAfter, TierUser))

\* the same without the has-note class
RefreshEqualsCreateButIndicator ==
    rPc = "refreshed" =>
        [shown(rButton[1]) EXCEPT !.indicator = FALSE]
          = [shown(createNoteButton(rAfter, TierUser)) EXCEPT !.indicator = FALSE]

\* the log pipeline with storage failures and the record of what they dropped
offLogDrop == <<normVars, noteVars, drvVars, ops, domVars, migVars, viewVars, clockVars, editorVars, clearVars, retVars, lateVars, tierVars, navVars, renderVars, otherVars, installVars, stampVars>>
LogDropInitAll ==
    LogInit /\ FailIdle /\ DropIdle /\ NormIdle /\ NotesIdle /\ DrvIdle /\ ops = 0 /\ DomIdle /\ MigIdle /\ ViewIdle /\ ClockIdle /\ EditorIdle /\ ClearIdle /\ RetIdle /\ LateIdle /\ TierIdle /\ NavIdle /\ RenderIdle /\ OtherIdle /\ InstallIdle /\ StampIdle
LogDropNext ==
    \/ Log /\ UNCHANGED <<bridgeVars, failVars, dropVars, offLogDrop>>
    \/ \E tm \in flushTimers : FlushTimer(tm) /\ UNCHANGED <<bridgeVars, failVars, dropVars, offLogDrop>>
    \/ FlushGot /\ UNCHANGED <<bridgeVars, failVars, dropVars, offLogDrop>>
    \/ FlushSet /\ UNCHANGED <<bridgeVars, failVars, dropVars, offLogDrop>>
    \/ FlushFailsDiscards /\ UNCHANGED offLogDrop
    \/ CallGetLogs /\ UNCHANGED <<failVars, dropVars, offLogDrop>>
    \/ GetLogsDone /\ UNCHANGED <<failVars, dropVars, offLogDrop>>
    \/ LogElapse /\ UNCHANGED <<failVars, dropVars, offLogDrop>>

\* time passes, a timer that is due runs and the store answers every call;
\* an answer may be a rejection any number of times
SpecLogDrop ==
    /\ LogDropInitAll
    /\ [][LogDropNext]_vars
    /\ WF_vars(LogElapse /\ UNCHANGED <<failVars, dropVars, offLogDrop>>)
    /\ WF_vars(\E tm \in flushTimers : FlushTimer(tm) /\ UNCHANGED <<bridgeVars, failVars, dropVars, offLogDrop>>)
    /\ WF_vars(FlushGot /\ UNCHANGED <<bridgeVars, failVars, dropVars, offLogDrop>>)
    /\ WF_vars(FlushSet /\ UNCHANGED <<bridgeVars, failVars, dropVars, offLogDrop>>)
    /\ WF_vars(GetLogsDone /\ UNCHANGED <<failVars, dropVars, offLogDrop>>)

\* the entries of the failed flushes are neither pending nor stored
DiscardedStayOut ==
    discarded \cap (Range(logQueue) \cup Range(logStore)) = {}

\* a step on which a flush fails
FlushFailed == failed' # failed \/ discarded' # discarded

\* C36: when the storage read or write of a flush fails, the entries that
\* flush drained are not put back on the queue and are never in the stored
\* log afterwards, isFlushing is false after the failure, a timer is live
\* when entries wait, and every entry enqueued at any time, after a failure
\* included, is later in the stored log unless its own flush fails too.
C36_FailedFlushDiscards ==
    /\ [] DiscardedStayOut
    /\ [][FlushFailed =>
            /\ logQueue' = logQueue
            /\ logStore' = logStore
            /\ ~isFlushing'
            /\ (logQueue' # <<>> => \E tm \in flushTimers' : tm.id = flushTimeout')]_vars
    /\ \A e \in 1..MaxLogs :
          (e \in Range(logQueue)) ~> (e \in Range(logStore) \/ e \in discarded)

\* a flush failed and dropped an entry, and an entry enqueued later is stored
C36_Witness ==
    /\ discarded # {}
    /\ \E e \in Range(logStore) : \E d \in discarded : e > d
    /\ ~isFlushing

\* the log pipeline of one context and the flushes of another context
offLogOther == <<normVars, noteVars, drvVars, ops, domVars, migVars, viewVars, failVars, clockVars, editorVars, clearVars, retVars, lateVars, tierVars, navVars, renderVars, dropVars, installVars, stampVars>>
LogOtherInitAll ==
    LogOtherInit /\ OtherIdle /\ NormIdle /\ NotesIdle /\ DrvIdle /\ ops = 0 /\ DomIdle /\ MigIdle /\ ViewIdle /\ FailIdle /\ ClockIdle /\ EditorIdle /\ ClearIdle /\ RetIdle /\ LateIdle /\ TierIdle /\ NavIdle /\ RenderIdle /\ DropIdle /\ InstallIdle /\ StampIdle
LogOtherNext ==
    \/ Log /\ UNCHANGED <<bridgeVars, otherVars, offLogOther>>
    \/ \E tm \in flushTimers : FlushTimer(tm) /\ UNCHANGED <<bridgeVars, otherVars, offLogOther>>
    \/ FlushGot /\ UNCHANGED <<bridgeVars, otherVars, offLogOther>>
    \/ FlushSet /\ UNCHANGED <<bridgeVars, otherVars, offLogOther>>
    \/ CallGetLogs /\ UNCHANGED <<otherVars, offLogOther>>
    \/ GetLogsDone /\ UNCHANGED <<otherVars, offLogOther>>
    \/ LogElapse /\ UNCHANGED <<otherVars, offLogOther>>
    \/ OtherFlushGot /\ UNCHANGED <<logQueue, flushTimeout, isFlushing, flushTimers, consoleOut, logOps, fl, ga, bridgeVars, offLogOther>>
    \/ OtherFlushSet /\ UNCHANGED <<logQueue, flushTimeout, isFlushing, flushTimers, consoleOut, logOps, fl, ga, bridgeVars, offLogOther>>
SpecLogOther == LogOtherInitAll /\ [][LogOtherNext]_vars

\* the context an entry comes from
origin(e) == IF e >= otherEntry(1) THEN "other" ELSE IF e >= 1 THEN "this" ELSE "earlier"

\* the stored entries that come from context o, in stored order
storedOf(o) == SelectSeq(logStore, LAMBDA e : origin(e) = o)

\* each entry is greater than the one before it
increasing(s) == \A i \in 1..(Len(s) - 1) : s[i] < s[i + 1]

\* C37: in every reachable state, under every interleaving of xpnLog, the
\* timer's flush, xpnGetLogs and the flushes of another context, no entry
\* is twice in the stored log and the entries of one context are stored in
\* the order that context enqueued them: the entries of each context are
\* stored in strictly increasing order of their numbers.
C37_NoDuplicationNoReordering ==
    \A o \in {"earlier", "this", "other"} : increasing(storedOf(o))

\* the entries stored in this session, in stored order
storedNow == SelectSeq(logStore, LAMBDA e : origin(e) # "earlier")

\* the stored log holds entries of two flushes of this context with an
\* entry of the other context between them
C37_Witness ==
    \E i, j, k \in DOMAIN storedNow :
        /\ i < j /\ j < k
        /\ origin(storedNow[i]) = "this"
        /\ origin(storedNow[j]) = "other"
        /\ origin(storedNow[k]) = "this"

\* the onInstalled listener of the service worker next to a content script
\* that loads and saves
offInstall == <<normVars, drvVars, domVars, logVars, bridgeVars, migVars, viewVars, failVars, clockVars, editorVars, clearVars, retVars, lateVars, tierVars, navVars, renderVars, dropVars, otherVars, stampVars>>
InstallInitAll ==
    InstallInit /\ ops = 0 /\ NormIdle /\ DrvIdle /\ DomIdle /\ LogIdle /\ BridgeIdle /\ MigIdle /\ ViewIdle /\ FailIdle /\ ClockIdle /\ EditorIdle /\ ClearIdle /\ RetIdle /\ LateIdle /\ TierIdle /\ NavIdle /\ RenderIdle /\ DropIdle /\ OtherIdle /\ StampIdle
InstallNext ==
    \/ InstalledGot /\ UNCHANGED <<offInstall, ops>>
    \/ InstalledSet /\ UNCHANGED <<offInstall, ops>>
    \/ InstalledUpdate /\ UNCHANGED <<offInstall, ops>>
    \/ ContentLoadNotes /\ UNCHANGED <<installVars, offInstall, ops>>
    \/ \E u \in RawUsernames, t \in { <<>>, <<"g">> }, s \in { <<>>, <<3>> } :
          Spend /\ SaveNote(u, t, s) /\ UNCHANGED <<installVars, offInstall>>
    \/ InstallStorageSetOk /\ UNCHANGED <<offInstall, ops>>
    \/ ContentResume /\ UNCHANGED <<installVars, offInstall, ops>>
    \/ ContentOnChanged /\ UNCHANGED <<installVars, offInstall, ops>>
    \/ Tick /\ UNCHANGED <<installVars, offInstall, ops>>
SpecInstall == InstallInitAll /\ [][InstallNext]_vars

\* a step on which the onInstalled listener completes its storage calls
InstallCompletes == bg.pc # "done" /\ bg'.pc = "done"

\* C38: on the step that completes the onInstalled listener, every record
\* the store holds, written by another context before or during the
\* listener's get-then-set, is still in the store.
C38_InstallKeepsRecords ==
    [][InstallCompletes =>
         \A k \in DOMAIN notes : k \in DOMAIN notes' /\ notes'[k] = notes[k]]_vars

\* the listener writes the empty collection only after a get that found no
\* value under the key
InstallWritesWhenAbsent ==
    [][(bg.pc = "installed" /\ bg'.pc = "writing") => ~hasKey]_vars

\* the content script alone with a wall clock that can be set back
offStamps == <<normVars, drvVars, domVars, logVars, bridgeVars, migVars, viewVars, failVars, clockVars, editorVars, clearVars, retVars, lateVars, tierVars, navVars, renderVars, dropVars, otherVars, installVars>>
StampsInitAll ==
    UpsertInit /\ StampIdle /\ ops = 0 /\ NormIdle /\ DrvIdle /\ DomIdle /\ LogIdle /\ BridgeIdle /\ MigIdle /\ ViewIdle /\ FailIdle /\ ClockIdle /\ EditorIdle /\ ClearIdle /\ RetIdle /\ LateIdle /\ TierIdle /\ NavIdle /\ RenderIdle /\ DropIdle /\ OtherIdle /\ InstallIdle
StampsNext ==
    \/ ContentLoadNotes /\ UNCHANGED <<stampVars, offStamps, ops>>
    \/ \E u \in RawUsernames, t \in { <<>>, <<"g">> }, s \in { <<>>, <<3>>, <<6>> } :
          Spend /\ SaveNote(u, t, s) /\ UNCHANGED <<stampVars, offStamps>>
    \/ \E u \in RawUsernames, i \in 0..1 :
          Spend /\ DeleteScoreAtIndex(u, i) /\ UNCHANGED <<stampVars, offStamps>>
    \/ StorageSetOk("content") /\ UNCHANGED <<stampVars, offStamps, ops>>
    \/ ContentResume /\ UNCHANGED <<stampVars, offStamps, ops>>
    \/ ContentOnChanged /\ UNCHANGED <<stampVars, offStamps, ops>>
    \/ Tick /\ UNCHANGED <<stampVars, offStamps, ops>>
    \/ ClockSetBack /\ UNCHANGED <<offStamps, ops>>
SpecStamps == StampsInitAll /\ [][StampsNext]_vars

\* a step of saveNote or deleteScoreAtIndex that changes the cache
CallOnCache == Len(writes'["content"]) > Len(writes["content"]) /\ cPc = "ready"

\* saveNote and deleteScoreAtIndex leave createdAt of a record they keep
CreatedAtKept ==
    [][CallOnCache =>
         \A k \in DOMAIN notesCache \cap DOMAIN notesCache' :
             notesCache'[k].createdAt = notesCache[k].createdAt]_vars

\* a record made at time t has createdAt = t
CreatedAtSet ==
    [][CallOnCache =>
         \A k \in DOMAIN notesCache' \ DOMAIN notesCache :
             notesCache'[k].createdAt = now]_vars

createdBeforeUpdated(coll) ==
    \A k \in DOMAIN coll : coll[k].createdAt <= coll[k].updatedAt

samplesInTimeOrder(coll) ==
    \A k \in DOMAIN coll : \A i \in 1..(Len(coll[k].scores) - 1) :
        coll[k].scores[i].timestamp <= coll[k].scores[i + 1].timestamp

\* C39 as stated: createdAt is set at creation and kept by saveNote and
\* deleteScoreAtIndex, createdAt <= updatedAt in every reachable state
\* whatever the clock does, and the sample timestamps are in stored order
\* while the clock has not gone back.
C39_AsStated ==
    /\ CreatedAtSet
    /\ CreatedAtKept
    /\ [](createdBeforeUpdated(notesCache) /\ createdBeforeUpdated(notes))
    /\ [](~wentBack => samplesInTimeOrder(notesCache) /\ samplesInTimeOrder(notes))

\* C39: for every record made by saveNote, createdAt is the time of the
\* call that made it and is kept by every later saveNote and
\* deleteScoreAtIndex on it, whatever the clock does; and while Date.now()
\* has never gone back, createdAt <= updatedAt and the timestamps of the
\* stored samples are non-decreasing in stored order, in cache and store.
C39_TimestampsConsistent ==
    /\ CreatedAtSet
    /\ CreatedAtKept
    /\ [](~wentBack => /\ createdBeforeUpdated(notesCache) /\ createdBeforeUpdated(notes)
                       /\ samplesInTimeOrder(notesCache) /\ samplesInTimeOrder(notes))

\* the store holds a record made earlier, updated later, with two samples
\* of different times, and the clock has never gone back
C39_Witness ==
    /\ ~wentBack
    /\ \E k \in DOMAIN notes :
          /\ notes[k].createdAt < notes[k].updatedAt
          /\ Len(notes[k].scores) = 2
          /\ notes[k].scores[1].timestamp < notes[k].scores[2].timestamp

\* the log pipeline of a context that logs, reads and clears the log, with
\* a store that may reject the calls of flushLogs and xpnGetLogs
offLogSched == <<normVars, noteVars, drvVars, ops, domVars, migVars, viewVars, clockVars, editorVars, retVars, lateVars, tierVars, navVars, renderVars, dropVars, otherVars, installVars, stampVars>>
LogSchedInitAll ==
    LogInit /\ logStore = <<>> /\ FailIdle /\ ClearIdle /\ NormIdle /\ NotesIdle /\ DrvIdle /\ ops = 0 /\ DomIdle /\ MigIdle /\ ViewIdle /\ ClockIdle /\ EditorIdle /\ RetIdle /\ LateIdle /\ TierIdle /\ NavIdle /\ RenderIdle /\ DropIdle /\ OtherIdle /\ InstallIdle /\ StampIdle
LogSchedNext ==
    \/ Log /\ UNCHANGED <<bridgeVars, failVars, clearVars, offLogSched>>
    \/ \E tm \in flushTimers :
          FlushTimer(tm) /\ UNCHANGED <<bridgeVars, failVars, clearVars, offLogSched>>
    \/ FlushGot /\ UNCHANGED <<bridgeVars, failVars, clearVars, offLogSched>>
    \/ FlushSet /\ UNCHANGED <<bridgeVars, failVars, clearVars, offLogSched>>
    \/ FlushFails /\ UNCHANGED <<clearVars, offLogSched>>
    \/ CallGetLogs /\ UNCHANGED <<failVars, clearVars, offLogSched>>
    \/ GetLogsDone /\ UNCHANGED <<failVars, clearVars, offLogSched>>
    \/ GetLogsFails /\ UNCHANGED <<clearVars, offLogSched>>
    \/ xpnClearLogs /\ UNCHANGED <<bridgeVars, failVars, offLogSched>>
    \/ ClearRemoved /\ UNCHANGED <<bridgeVars, failVars, offLogSched>>
    \/ LogElapse /\ UNCHANGED <<failVars, clearVars, offLogSched>>
SpecLogSched == LogSchedInitAll /\ [][LogSchedNext]_vars

\* C40: between the turns of the event loop at most one flush timer is
\* live, flushTimeout is non-null exactly when a timer is live and then is
\* the handle of that timer, and whenever the queue holds entries a flush
\* timer is live or a flush is in progress.
C40_FlushScheduling ==
    /\ Cardinality(flushTimers) <= 1
    /\ flushTimeout # 0 <=> flushTimers # {}
    /\ \A tm \in flushTimers : tm.id = flushTimeout
    /\ logQueue # <<>> => (flushTimers # {} \/ isFlushing)

\* entries wait with no timer live, covered by the flush in progress only:
\* xpnGetLogs has cleared the timer of an entry logged during the flush
C40_Witness ==
    /\ logQueue # <<>>
    /\ flushTimers = {}
    /\ isFlushing
    /\ ga.pc = "reading"
    /\ ga.busy

====
